---- MODULE Spec2Model ----
(***************************************************************************)
(* FAT12/16 virtual-disk engine and workspace live sync of the DOS text    *)
(* adventure player: the server-side image builder (fat16-builder), the    *)
(* browser-side FAT reader/writer, the Express workspace endpoints and the *)
(* browser's sync coordinator.                                             *)
(*                                                                         *)
(* A disk image is a byte array.  It is kept as its length together with   *)
(* the map of its non-zero bytes (every other byte is 0), so that a real   *)
(* 32 MiB image and a small floppy-style volume are values of one kind.    *)
(* Strings (file names) are sequences of character codes.                  *)
(***************************************************************************)
EXTENDS Integers, Sequences, FiniteSets, TLC

(* ------------------------------------------------------------------ *)
(* Bytes and byte arrays                                              *)
(* ------------------------------------------------------------------ *)

CeilDiv(a, b) == (a + b - 1) \div b

Min(a, b) == IF a < b THEN a ELSE b

Max(a, b) == IF a > b THEN a ELSE b

\* The four bytes of v, least significant first (writeUInt32LE).
UInt32LE(v) == << v % 256, (v \div 256) % 256, (v \div 65536) % 256, (v \div 16777216) % 256 >>

\* The two bytes of v, least significant first (writeUInt16LE).
UInt16LE(v) == << v % 256, (v \div 256) % 256 >>

\* The bytes of seq laid out from offset off.
At(off, seq) == [o \in off .. (off + Len(seq) - 1) |-> seq[o - off + 1]]

\* An image (a Buffer, a Uint8Array) is its length and a map b from offsets
\* to the bytes stored there; an offset b does not have holds 0.
\* img[o]
Get(img, o) == IF o \in DOMAIN img.b THEN img.b[o] ELSE 0

\* img[o] = upd[o] for every o of upd, in one go.  An index at or beyond the
\* length of a Buffer / Uint8Array is silently ignored by JavaScript.
Poke(img, upd) ==
    IF \A o \in DOMAIN upd : o >= 0 /\ o < img.len
    THEN [img EXCEPT !.b = upd @@ @]
    ELSE [img EXCEPT !.b = [o \in {p \in DOMAIN upd : p >= 0 /\ p < img.len} |-> upd[o]] @@ @]

\* The same bytes with the zero bytes left out of the map: two images (two
\* files) with the same bytes are then the same value.  Every image and every
\* file kept in a variable is in this form.
Normal(img) ==
    [img EXCEPT !.b = [o \in {p \in DOMAIN img.b : img.b[p] # 0} |-> img.b[o]] @@ << >>]

\* Buffer.alloc(n, 0) / new Uint8Array(n)
ZeroImage(n) == [len |-> n, b |-> << >>]

\* readUInt16LE / img[o] | (img[o+1] << 8)
U16(img, o) == Get(img, o) + 256 * Get(img, o + 1)

\* The low 31 bits of the 32-bit little-endian word at o.
Low31(img, o) == Get(img, o) + 256 * Get(img, o + 1) + 65536 * Get(img, o + 2)
                 + 16777216 * (Get(img, o + 3) % 128)

\* readUInt32LE (unsigned).  The model's integers end at 2^31 - 1: a word with
\* its top bit set reads as 2^31 - 1, which is above every quantity it is
\* compared with (sector counts, chain lengths and offsets of images of at
\* most 512 MiB).
U32(img, o) == IF Get(img, o + 3) >= 128 THEN 2147483647 ELSE Low31(img, o)

\* a | (b << 8) | (c << 16) | (d << 24) as JavaScript computes it: a signed
\* 32-bit integer.
S32(img, o) == IF Get(img, o + 3) >= 128
               THEN (Low31(img, o) - 2147483647) - 1
               ELSE Low31(img, o)

(* ------------------------------------------------------------------ *)
(* fat16-builder: layout constants and blank image                    *)
(* ------------------------------------------------------------------ *)

BYTES_PER_SECTOR == 512

PARTITION_START_LBA == 63

RESERVED_SECTORS == 1

NUM_FATS == 2

ROOT_DIR_ENTRIES == 512

ROOT_DIR_SECTORS == (ROOT_DIR_ENTRIES * 32) \div BYTES_PER_SECTOR

MEDIA_DESCRIPTOR == 248

\* The candidate cluster sizes, in the order tried.
SpcCandidates == << 1, 2, 4, 8, 16, 32, 64 >>

\* calcGeometry with a single estimate of the FAT size in place of the loop.
CalcSpfOnce(partitionSectors, spc, spf, iter) ==
    LET dataSectors == partitionSectors - RESERVED_SECTORS
                       - (NUM_FATS * spf) - ROOT_DIR_SECTORS
    IN IF dataSectors <= 0 THEN spf
       ELSE CeilDiv(((dataSectors \div spc) + 2) * 2, BYTES_PER_SECTOR)

RECURSIVE CalcSpf(_, _, _, _)
\* The inner loop of calcGeometry: estimate the FAT size, at most 10 times.
CalcSpf(partitionSectors, spc, spf, iter) ==
    IF iter >= 10 THEN spf
    ELSE LET dataSectors == partitionSectors - RESERVED_SECTORS
                            - (NUM_FATS * spf) - ROOT_DIR_SECTORS
         IN IF dataSectors <= 0 THEN spf
            ELSE LET clusters == dataSectors \div spc
                     needed == CeilDiv((clusters + 2) * 2, BYTES_PER_SECTOR)
                 IN IF needed = spf THEN spf
                    ELSE CalcSpf(partitionSectors, spc, needed, iter + 1)

RECURSIVE CalcTry(_, _)

\* One candidate of the outer loop: taken if its cluster count fits FAT16.
CalcPick(partitionSectors, i, spc, spf) ==
    LET dataSectors == partitionSectors - RESERVED_SECTORS
                       - (NUM_FATS * spf) - ROOT_DIR_SECTORS
        clusters == dataSectors \div spc
    IN IF clusters >= 4085 /\ clusters <= 65524
       THEN [sectorsPerCluster |-> spc, sectorsPerFAT |-> spf,
             totalClusters |-> clusters]
       ELSE CalcTry(partitionSectors, i + 1)

\* The outer loop of calcGeometry, from candidate i; the fallback after it.
CalcTry(partitionSectors, i) ==
    IF i > Len(SpcCandidates)
    THEN [sectorsPerCluster |-> 4, sectorsPerFAT |-> 64, totalClusters |-> 0]
    ELSE CalcPick(partitionSectors, i, SpcCandidates[i],
                  CalcSpf(partitionSectors, SpcCandidates[i], 1, 0))

calcGeometry(partitionSectors) == CalcTry(partitionSectors, 1)

\* The image createBlankImage fills in, with the geometry it computed.
\* now32 is Date.now() & 0xFFFFFFFF, a signed 32-bit integer: writeUInt32LE
\* raises a RangeError when it is negative.
BlankLayout(totalBytes, partitionSectors, geo, now32) ==
    LET pe == 446
        bpb == PARTITION_START_LBA * BYTES_PER_SECTOR
        fatStart == bpb + RESERVED_SECTORS * BYTES_PER_SECTOR
        fat2Start == fatStart + geo.sectorsPerFAT * BYTES_PER_SECTOR
        mbr == At(pe, << 128, 1, 1, 0, 6, 254, 255, 255 >>)
               @@ At(pe + 8, UInt32LE(PARTITION_START_LBA))
               @@ At(pe + 12, UInt32LE(partitionSectors))
               @@ At(510, << 85, 170 >>)
        boot == At(bpb, << 235, 60, 144 >>)
                @@ At(bpb + 3, << 77, 83, 68, 79, 83, 53, 46, 48 >>)
                @@ At(bpb + 11, UInt16LE(BYTES_PER_SECTOR))
                @@ At(bpb + 13, << geo.sectorsPerCluster >>)
                @@ At(bpb + 14, UInt16LE(RESERVED_SECTORS))
                @@ At(bpb + 16, << NUM_FATS >>)
                @@ At(bpb + 17, UInt16LE(ROOT_DIR_ENTRIES))
                @@ At(bpb + 19, UInt16LE(0))
                @@ At(bpb + 21, << MEDIA_DESCRIPTOR >>)
                @@ At(bpb + 22, UInt16LE(geo.sectorsPerFAT))
                @@ At(bpb + 24, UInt16LE(63))
                @@ At(bpb + 26, UInt16LE(16))
                @@ At(bpb + 28, UInt32LE(PARTITION_START_LBA))
                @@ At(bpb + 32, UInt32LE(partitionSectors))
                @@ At(bpb + 36, << 128 >>)
                @@ At(bpb + 38, << 41 >>)
                @@ At(bpb + 39, UInt32LE(now32))
                @@ At(bpb + 43, << 87, 79, 82, 75, 83, 80, 65, 67, 69, 32, 32 >>)
                @@ At(bpb + 54, << 70, 65, 84, 49, 54, 32, 32, 32 >>)
                @@ At(bpb + 510, << 85, 170 >>)
        fats == At(fatStart, << MEDIA_DESCRIPTOR, 255, 255, 255 >>)
                @@ At(fat2Start, << MEDIA_DESCRIPTOR, 255, 255, 255 >>)
    IN IF now32 < 0
       THEN [ok |-> FALSE, img |-> ZeroImage(0)]
       ELSE [ok |-> TRUE, img |-> Normal(Poke(ZeroImage(totalBytes), fats @@ boot @@ mbr))]

\* A partition as long as the whole image, the 63 sectors before it not taken
\* off: what C37 rules out.
PartitionSectorsWhole(sizeMB) == (sizeMB * 1024 * 1024) \div BYTES_PER_SECTOR

\* totalSectors - PARTITION_START_LBA of an image of sizeMB megabytes.
PartitionSectors(sizeMB) ==
    ((sizeMB * 1024 * 1024) \div BYTES_PER_SECTOR) - PARTITION_START_LBA

\* createBlankImage(sizeMB)
createBlankImage(sizeMB, now32) ==
    BlankLayout(sizeMB * 1024 * 1024, PartitionSectors(sizeMB),
                calcGeometry(PartitionSectors(sizeMB)), now32)

(* ------------------------------------------------------------------ *)
(* Geometry                                                           *)
(* ------------------------------------------------------------------ *)

\* "no geometry": parseGeometry / parseFATGeometry returned null.
NoGeo == [ok |-> FALSE]

\* The call does not return: a read of the Buffer past its end throws
\* RangeError.
Raised == [ok |-> FALSE, raised |-> TRUE]

FatPartTypes == {1, 4, 6, 11, 12, 14}

\* The 32-bit starting LBA of a partition entry: readUInt32LE on the server
\* (unsigned), a | b << 8 | c << 16 | d << 24 in the browser (signed).
Lba(img, o, signed) == IF signed THEN S32(img, o) ELSE U32(img, o)

\* lba * 512.  A partition start of 1 GiB or more lies beyond every image of
\* the model (at most 512 MiB) and is kept as 1 GiB.
LbaBytes(lba) == IF lba >= 2097152 THEN 1073741824 ELSE lba * 512

RECURSIVE PartScan(_, _, _)
\* The scan of the four partition-table entries, from entry i.
PartScan(img, i, signed) ==
    IF i >= 4 THEN 0
    ELSE LET entryOff == 446 + i * 16
             partType == Get(img, entryOff + 4)
         IN IF partType \in FatPartTypes /\ Lba(img, entryOff + 8, signed) > 0
            THEN LbaBytes(Lba(img, entryOff + 8, signed))
            ELSE PartScan(img, i + 1, signed)

\* The part the two parsers share: the BPB fields at partOffset with the total
\* sector count already chosen, the sanity checks and the derived layout.
GeometryAt(img, partOffset, totalSectors) ==
    LET bpb == partOffset
        bytesPerSector == U16(img, bpb + 11)
        sectorsPerCluster == Get(img, bpb + 13)
        reservedSectors == U16(img, bpb + 14)
        numFATs == Get(img, bpb + 16)
        rootDirEntries == U16(img, bpb + 17)
        sectorsPerFAT == U16(img, bpb + 22)
    IN IF bytesPerSector < 128 \/ bytesPerSector > 4096 THEN NoGeo
       ELSE IF sectorsPerCluster = 0 \/ numFATs = 0 \/ sectorsPerFAT = 0 THEN NoGeo
       ELSE LET fatStart == partOffset + reservedSectors * bytesPerSector
                fat2Start == fatStart + sectorsPerFAT * bytesPerSector
                rootDirStart == partOffset
                                + (reservedSectors + numFATs * sectorsPerFAT) * bytesPerSector
                rootDirSectors == CeilDiv(rootDirEntries * 32, bytesPerSector)
                dataStart == rootDirStart + rootDirSectors * bytesPerSector
                dataSectors == totalSectors - reservedSectors
                               - (numFATs * sectorsPerFAT) - rootDirSectors
                totalClusters == dataSectors \div sectorsPerCluster
            IN [ok |-> TRUE,
                partOffset |-> partOffset, bytesPerSector |-> bytesPerSector,
                sectorsPerCluster |-> sectorsPerCluster,
                bytesPerCluster |-> bytesPerSector * sectorsPerCluster,
                reservedSectors |-> reservedSectors, numFATs |-> numFATs,
                rootDirEntries |-> rootDirEntries, totalSectors |-> totalSectors,
                sectorsPerFAT |-> sectorsPerFAT, fatStart |-> fatStart,
                fat2Start |-> fat2Start, rootDirStart |-> rootDirStart,
                dataStart |-> dataStart, totalClusters |-> totalClusters,
                fatType |-> IF totalClusters < 4085 THEN 12 ELSE 16]

\* parseGeometry (server).  img is a Buffer: readUInt16LE(bpb + 11) ...
\* readUInt16LE(bpb + 22), and readUInt32LE(bpb + 32) if it is reached, throw
\* when they read past the end of the buffer.
parseGeometry(img) ==
    LET partOffset == IF img.len > 512 /\ Get(img, 510) = 85 /\ Get(img, 511) = 170
                      THEN PartScan(img, 0, FALSE) ELSE 0
        small == U16(img, partOffset + 19)
        totalSectors == IF small = 0 THEN U32(img, partOffset + 32) ELSE small
    IN IF partOffset + 24 > img.len \/ (small = 0 /\ partOffset + 36 > img.len)
       THEN Raised
       ELSE GeometryAt(img, partOffset, totalSectors)

\* parseFATGeometry (browser).
parseFATGeometry(img) ==
    LET partOffset == IF img.len > 512 /\ Get(img, 510) = 85 /\ Get(img, 511) = 170
                      THEN PartScan(img, 0, TRUE) ELSE 0
        small == U16(img, partOffset + 19)
        totalSectors == IF small = 0 THEN S32(img, partOffset + 32) ELSE small
    IN GeometryAt(img, partOffset, totalSectors)

(* ------------------------------------------------------------------ *)
(* FAT entries                                                        *)
(* ------------------------------------------------------------------ *)

\* readFATEntry (the server's and the browser's are the same text).
readFATEntry(img, geo, cluster) ==
    IF geo.fatType = 12
    THEN LET bo == (cluster * 3) \div 2
             w == U16(img, geo.fatStart + bo)
         IN IF cluster % 2 = 1 THEN w \div 16 ELSE w % 4096
    ELSE U16(img, geo.fatStart + cluster * 2)

\* One pass of writeFATEntry's loop: the entry of one FAT copy, at base.
WriteFATCopy(img, geo, base, cluster, val) ==
    IF geo.fatType = 12
    THEN LET bo == (cluster * 3) \div 2
             w0 == U16(img, base + bo)
             w == IF cluster % 2 = 1
                  THEN (w0 % 16) + (val % 4096) * 16
                  ELSE (w0 \div 4096) * 4096 + (val % 4096)
         IN Poke(img, At(base + bo, << w % 256, (w \div 256) % 256 >>))
    ELSE Poke(img, At(base + cluster * 2, << val % 256, (val \div 256) % 256 >>))

\* writeFATEntry: the same entry in FAT #1, then in FAT #2.
writeFATEntry(img, geo, cluster, val) ==
    WriteFATCopy(WriteFATCopy(img, geo, geo.fatStart, cluster, val),
                 geo, geo.fat2Start, cluster, val)

isEOF(geo, val) == IF geo.fatType = 12 THEN val >= 4088 ELSE val >= 65528

(* ------------------------------------------------------------------ *)
(* File names and file contents                                       *)
(* ------------------------------------------------------------------ *)

\* String.prototype.toUpperCase on an ASCII character code.
UpperCode(c) == IF c >= 97 /\ c <= 122 THEN c - 32 ELSE c

ToUpperCase(str) == [i \in 1 .. Len(str) |-> UpperCode(str[i])]

\* The index of the first "." of str at or after position i, Len(str) + 1 if none.
RECURSIVE DotFrom(_, _)
DotFrom(str, i) == IF i > Len(str) \/ str[i] = 46 THEN i ELSE DotFrom(str, i + 1)

\* str.split(".")[0] and (str.split(".")[1] || "")
SplitPart0(str) == SubSeq(str, 1, DotFrom(str, 1) - 1)

SplitPart1(str) ==
    LET d1 == DotFrom(str, 1)
    IN IF d1 > Len(str) THEN << >> ELSE SubSeq(str, d1 + 1, DotFrom(str, d1 + 1) - 1)

\* part.substring(0, n).padEnd(n, " ")
PadTo(part, n) == [i \in 1 .. n |-> IF i <= Len(part) THEN part[i] ELSE 32]

\* fn + fe of writeFileToImage / writeFATFile: the 11 characters of the 8.3 name.
Name83(fileName) ==
    LET up == ToUpperCase(fileName)
    IN PadTo(SplitPart0(up), 8) \o PadTo(SplitPart1(up), 3)

\* The characters String.prototype.trimEnd removes, among the codes 0..255.
IsSpaceCode(c) == c \in {9, 10, 11, 12, 13, 32, 160}

RECURSIVE TrimEnd(_)
TrimEnd(str) ==
    IF Len(str) > 0 /\ IsSpaceCode(str[Len(str)])
    THEN TrimEnd(SubSeq(str, 1, Len(str) - 1)) ELSE str

\* The characters String.fromCharCode(img[off]), ..., of n image bytes.
CharsAt(img, off, n) == [i \in 1 .. n |-> Get(img, off + i - 1)]

\* A file's contents: its length and its non-zero bytes by 0-based index.
EmptyData == [len |-> 0, b |-> << >>]

DataGet(data, j) == IF j \in DOMAIN data.b THEN data.b[j] ELSE 0

(* ------------------------------------------------------------------ *)
(* Cluster allocator and writer                                       *)
(*                                                                    *)
(* A loop of the code is three operators.  XStep is one test of the   *)
(* loop condition and, if it holds, one pass of the body; if it does  *)
(* not hold the state is marked done.  XRun(st, n) is at most n such  *)
(* passes: the first half of them, then the rest.  XLoop makes runs   *)
(* of 1, 2, 4, ... passes until the state is done.                    *)
(* ------------------------------------------------------------------ *)

\* The end-of-chain marker the writers store.
EofMark(geo) == IF geo.fatType = 12 THEN 4095 ELSE 65535

\* A cluster count rounded down instead of up: what C19 rules out.
ClustersNeededFloor(geo, data) == Max(1, data.len \div geo.bytesPerCluster)

\* Math.max(1, Math.ceil(len / bytesPerCluster)); the browser's
\* Math.ceil(len / bytesPerCluster) || 1 is the same number.
ClustersNeeded(geo, data) == Max(1, CeilDiv(data.len, geo.bytesPerCluster))

\* A pass of the scan that puts a free cluster in front of those found before
\* it: what C36 rules out.
FindFreeStepPrepend(img, geo, needed, st) ==
    IF st.c <= geo.totalClusters + 1 /\ Len(st.free) < needed
    THEN [c |-> st.c + 1,
          free |-> IF readFATEntry(img, geo, st.c) = 0
                   THEN << st.c >> \o st.free ELSE st.free,
          done |-> FALSE]
    ELSE [st EXCEPT !.done = TRUE]

\* for (c = 2; c <= totalClusters + 1 && freeClusters.length < needed; c++)
\*     if (readFATEntry(img, geo, c) === 0) freeClusters.push(c)
FindFreeStep(img, geo, needed, st) ==
    IF st.c <= geo.totalClusters + 1 /\ Len(st.free) < needed
    THEN [c |-> st.c + 1,
          free |-> IF readFATEntry(img, geo, st.c) = 0
                   THEN Append(st.free, st.c) ELSE st.free,
          done |-> FALSE]
    ELSE [st EXCEPT !.done = TRUE]

RECURSIVE FindFreeRun(_, _, _, _, _)
FindFreeRun(img, geo, needed, st, n) ==
    IF n = 1 THEN FindFreeStep(img, geo, needed, st)
    ELSE LET half == FindFreeRun(img, geo, needed, st, n \div 2)
         IN IF half.done THEN half
            ELSE FindFreeRun(img, geo, needed, half, n - (n \div 2))

RECURSIVE FindFreeLoop(_, _, _, _, _)
FindFreeLoop(img, geo, needed, st, n) ==
    LET run == FindFreeRun(img, geo, needed, st, n)
    IN IF run.done THEN run ELSE FindFreeLoop(img, geo, needed, run, 2 * n)

FindFreeClusters(img, geo, needed) ==
    FindFreeLoop(img, geo, needed, [c |-> 2, free |-> << >>, done |-> FALSE], 1).free

\* chunk = fileData.slice(srcOff, srcOff + bytesPerCluster); chunk.copy(img, off):
\* the bytes of the chunk, no more than are left of the file, replace what the
\* image held there.
CopyChunk(img, geo, off, data, srcOff) ==
    LET n == Max(0, Min(geo.bytesPerCluster, data.len - srcOff))
        old == DOMAIN img.b \cap (off .. (off + n - 1))
        src == DOMAIN data.b \cap (srcOff .. (srcOff + n - 1))
    IN IF old = {} /\ src = {} THEN img
       ELSE Poke(img, [o \in old \cup {off + (j - srcOff) : j \in src}
                         |-> DataGet(data, srcOff + (o - off))])

\* for (i = 0; i < freeClusters.length; i++) { copy chunk i to cluster
\*     freeClusters[i]; writeFATEntry(that cluster, the next one or eofMark) }
WriteClustersStep(geo, data, freeClusters, st) ==
    IF st.i < Len(freeClusters)
    THEN LET c == freeClusters[st.i + 1]
             off == geo.dataStart + (c - 2) * geo.bytesPerCluster
             srcOff == st.i * geo.bytesPerCluster
             next == IF st.i < Len(freeClusters) - 1 THEN freeClusters[st.i + 2]
                     ELSE EofMark(geo)
         IN [img |-> writeFATEntry(CopyChunk(st.img, geo, off, data, srcOff), geo, c, next),
             i |-> st.i + 1, done |-> FALSE]
    ELSE [st EXCEPT !.done = TRUE]

RECURSIVE WriteClustersRun(_, _, _, _, _)
WriteClustersRun(geo, data, freeClusters, st, n) ==
    IF n = 1 THEN WriteClustersStep(geo, data, freeClusters, st)
    ELSE LET half == WriteClustersRun(geo, data, freeClusters, st, n \div 2)
         IN IF half.done THEN half
            ELSE WriteClustersRun(geo, data, freeClusters, half, n - (n \div 2))

RECURSIVE WriteClustersLoop(_, _, _, _, _)
WriteClustersLoop(geo, data, freeClusters, st, n) ==
    LET run == WriteClustersRun(geo, data, freeClusters, st, n)
    IN IF run.done THEN run ELSE WriteClustersLoop(geo, data, freeClusters, run, 2 * n)

WriteClusters(img, geo, data, freeClusters) ==
    WriteClustersLoop(geo, data, freeClusters, [img |-> img, i |-> 0, done |-> FALSE], 1).img

\* A release pass that follows the old chain without zeroing its entries: what
\* C6 rules out.
FreeOldStepKeep(geo, st) ==
    IF st.oldC >= 2 /\ ~isEOF(geo, st.oldC)
    THEN [oldC |-> readFATEntry(st.img, geo, st.oldC), img |-> st.img, done |-> FALSE]
    ELSE [st EXCEPT !.done = TRUE]

\* while (oldC >= 2 && !isEOF(geo, oldC))
\*     { next = readFATEntry(oldC); writeFATEntry(oldC, 0); oldC = next }
FreeOldStep(geo, st) ==
    IF st.oldC >= 2 /\ ~isEOF(geo, st.oldC)
    THEN [oldC |-> readFATEntry(st.img, geo, st.oldC),
          img |-> writeFATEntry(st.img, geo, st.oldC, 0), done |-> FALSE]
    ELSE [st EXCEPT !.done = TRUE]

RECURSIVE FreeOldRun(_, _, _)
FreeOldRun(geo, st, n) ==
    IF n = 1 THEN FreeOldStep(geo, st)
    ELSE LET half == FreeOldRun(geo, st, n \div 2)
         IN IF half.done THEN half ELSE FreeOldRun(geo, half, n - (n \div 2))

RECURSIVE FreeOldLoop(_, _, _)
FreeOldLoop(geo, st, n) ==
    LET run == FreeOldRun(geo, st, n)
    IN IF run.done THEN run ELSE FreeOldLoop(geo, run, 2 * n)

\* The image after the release loop, and the oldC the loop ends with.
FreeOldChain(img, geo, oldC) ==
    FreeOldLoop(geo, [oldC |-> oldC, img |-> img, done |-> FALSE], 1)

\* A slot the overwrite scan and the free-slot scan treat as unused.
SlotUnused(img, geo, i) ==
    LET first == Get(img, geo.rootDirStart + i * 32) IN first = 0 \/ first = 229

\* The slots that are not unused.  Their first byte is not 0, so they are
\* among the slots of the bytes the directory region holds.
UsedSlots(img, geo) ==
    LET region == geo.rootDirStart .. (geo.rootDirStart + geo.rootDirEntries * 32 - 1)
    IN {i \in {(o - geo.rootDirStart) \div 32 : o \in DOMAIN img.b \cap region} :
           ~SlotUnused(img, geo, i)}

\* The least element of a non-empty set of numbers.
Least(S) == CHOOSE x \in S : \A y \in S : x <= y

\* The first slot that is in use and whose 11 name characters are name11, as
\* its offset; -1 if there is none.
FindExisting(img, geo, name11) ==
    LET hits == {i \in UsedSlots(img, geo) :
                    CharsAt(img, geo.rootDirStart + i * 32, 11) = name11}
    IN IF hits = {} THEN -1 ELSE geo.rootDirStart + Least(hits) * 32

\* The first unused slot, as its offset; -1 if there is none.
FindUnused(img, geo) ==
    LET unused == (0 .. (geo.rootDirEntries - 1)) \ UsedSlots(img, geo)
    IN IF unused = {} THEN -1 ELSE geo.rootDirStart + Least(unused) * 32

\* The 32 bytes of the directory entry written at dirOff.
DirEntryBytes(dirOff, name11, firstCluster, sz) ==
    At(dirOff, [i \in 1 .. 11 |-> name11[i] % 256])
    @@ At(dirOff + 11, << 32 >>)
    @@ At(dirOff + 12, [i \in 1 .. 14 |-> 0])
    @@ At(dirOff + 26, << firstCluster % 256, (firstCluster \div 256) % 256 >>)
    @@ At(dirOff + 28, UInt32LE(sz))

\* The end of the writer: no slot, or the entry written.
WriteEntry(released, dirOff, name11, firstCluster, sz) ==
    IF dirOff = -1 THEN [ok |-> FALSE, img |-> Normal(released)]
    ELSE [ok |-> TRUE,
          img |-> Normal(Poke(released, DirEntryBytes(dirOff, name11, firstCluster, sz)))]

\* The slot of the entry: the existing one, else the first unused one.
WriteSlot(released, geo, existing, name11, firstCluster, sz) ==
    WriteEntry(released, IF existing # -1 THEN existing ELSE FindUnused(released, geo),
               name11, firstCluster, sz)

\* After the release loop: the server's
\* "if (oldC >= 2 && isEOF(geo, oldC)) writeFATEntry(img, geo, oldC, 0)".
WriteReleased(freed, geo, existing, name11, firstCluster, sz, strayEof) ==
    WriteSlot(IF strayEof /\ existing # -1 /\ freed.oldC >= 2 /\ isEOF(geo, freed.oldC)
              THEN writeFATEntry(freed.img, geo, freed.oldC, 0)
              ELSE freed.img,
              geo, existing, name11, firstCluster, sz)

\* The release of the chain of an existing entry.
WriteOver(chained, geo, existing, name11, firstCluster, sz, strayEof) ==
    WriteReleased(IF existing = -1 THEN [img |-> chained, oldC |-> 0]
                  ELSE FreeOldChain(chained, geo, U16(chained, existing + 26)),
                  geo, existing, name11, firstCluster, sz, strayEof)

\* The directory scan for an entry of the same name, on the image that holds
\* the data and its chain.
WriteChained(chained, geo, name11, firstCluster, sz, strayEof) ==
    WriteOver(chained, geo, FindExisting(chained, geo, name11), name11, firstCluster, sz,
              strayEof)

\* A writer with the capacity test after the copy loop instead of before it:
\* what C3 rules out.
WriteAllocCopyFirst(img, geo, name11, data, needed, freeClusters, strayEof) ==
    IF Len(freeClusters) < needed
    THEN [ok |-> FALSE, img |-> Normal(WriteClusters(img, geo, data, freeClusters))]
    ELSE WriteChained(WriteClusters(img, geo, data, freeClusters), geo, name11,
                      freeClusters[1], data.len, strayEof)

\* "if (freeClusters.length < needed) return false", then the copy loop.
WriteAlloc(img, geo, name11, data, needed, freeClusters, strayEof) ==
    IF Len(freeClusters) < needed THEN [ok |-> FALSE, img |-> img]
    ELSE WriteChained(WriteClusters(img, geo, data, freeClusters), geo, name11,
                      freeClusters[1], data.len, strayEof)

\* The writer, in the order of the code: free clusters, data and chain, the
\* directory scan with the release of an existing entry's chain, the entry.
\* strayEof says whether the release ends with the server's stray store.
WriteFile(img, geo, fileName, data, strayEof) ==
    WriteAlloc(img, geo, Name83(fileName), data, ClustersNeeded(geo, data),
               FindFreeClusters(img, geo, ClustersNeeded(geo, data)), strayEof)

\* writeFileToImage (server, fat16-builder)
writeFileToImage(img, geo, fileName, fileData) == WriteFile(img, geo, fileName, fileData, TRUE)

\* writeFATFile (browser)
writeFATFile(img, geo, fileName, fileData) == WriteFile(img, geo, fileName, fileData, FALSE)

(* ------------------------------------------------------------------ *)
(* Extraction                                                         *)
(* ------------------------------------------------------------------ *)

\* while (cluster >= 2 && !isEOF(geo, cluster) && clusters.length < maxClusters)
\*     { clusters.push(cluster); cluster = readFATEntry(img, geo, cluster) }
ChainStep(img, geo, st) ==
    IF st.cluster >= 2 /\ ~isEOF(geo, st.cluster)
       /\ Len(st.clusters) < geo.totalClusters + 2
    THEN [cluster |-> readFATEntry(img, geo, st.cluster),
          clusters |-> Append(st.clusters, st.cluster), done |-> FALSE]
    ELSE [st EXCEPT !.done = TRUE]

RECURSIVE ChainRun(_, _, _, _)
ChainRun(img, geo, st, n) ==
    IF n = 1 THEN ChainStep(img, geo, st)
    ELSE LET half == ChainRun(img, geo, st, n \div 2)
         IN IF half.done THEN half ELSE ChainRun(img, geo, half, n - (n \div 2))

RECURSIVE ChainLoop(_, _, _, _)
ChainLoop(img, geo, st, n) ==
    LET run == ChainRun(img, geo, st, n)
    IN IF run.done THEN run ELSE ChainLoop(img, geo, run, 2 * n)

\* The walk of the extraction from firstCluster: the clusters collected and
\* the cluster value the walk stopped at.
ChainWalk(img, geo, firstCluster) ==
    ChainLoop(img, geo, [cluster |-> firstCluster, clusters |-> << >>, done |-> FALSE], 1)

ChainClusters(img, geo, firstCluster) == ChainWalk(img, geo, firstCluster).clusters

\* img.copy(data, dst, off, off + n): the bytes stored among the n image bytes
\* from off, placed from index dst.
ReadRange(img, off, n, dst) ==
    LET hit == DOMAIN img.b \cap (off .. (off + n - 1))
    IN [j \in {dst + (o - off) : o \in hit} |-> img.b[off + (j - dst)]]

RECURSIVE ReadClusters(_, _, _, _, _, _)
\* for (const c of clusters) { toRead = min(bytesPerCluster, useSize - written);
\*     if (toRead <= 0) break; img.copy(data, written, clusterOffset, ...) }
\* for the clusters of index lo..hi (1-based): those of the first half, then
\* the rest; written is bytesPerCluster for each cluster before.
ReadClusters(img, geo, clusters, useSize, lo, hi) ==
    IF lo > hi \/ useSize - (lo - 1) * geo.bytesPerCluster <= 0 THEN << >>
    ELSE IF lo = hi
         THEN LET written == (lo - 1) * geo.bytesPerCluster
                  toRead == Min(geo.bytesPerCluster, useSize - written)
                  clusterOffset == geo.dataStart + (clusters[lo] - 2) * geo.bytesPerCluster
              IN ReadRange(img, clusterOffset, toRead, written)
         ELSE LET mid == (lo + hi) \div 2
              IN ReadClusters(img, geo, clusters, useSize, lo, mid)
                 @@ ReadClusters(img, geo, clusters, useSize, mid + 1, hi)

\* name.trimEnd() + (ext ? "." + ext.trimEnd() : "") of the 11 name bytes.
FullName(name11) ==
    LET name == TrimEnd(SubSeq(name11, 1, 8))
        ext == TrimEnd(SubSeq(name11, 9, 11))
    IN IF Len(ext) > 0 THEN name \o << 46 >> \o ext ELSE name

\* The name a file is extracted under: the 8.3 form of the name it was
\* written under.
NameOnDisk(fileName) == FullName(Name83(fileName))

\* An extraction that trusts the size field of the entry whatever the chain
\* covers: what C18 rules out.
ExtractEntryDirSize(img, geo, off) ==
    LET clusters == ChainClusters(img, geo, U16(img, off + 26))
    IN [name |-> FullName(CharsAt(img, off, 11)),
        data |-> Normal([len |-> U32(img, off + 28),
                         b |-> ReadClusters(img, geo, clusters, U32(img, off + 28),
                                            1, Len(clusters))])]

\* The file of one directory slot, as extractFilesFromImage builds it.
ExtractEntry(img, geo, off) ==
    LET firstCluster == U16(img, off + 26)
        dirSize == U32(img, off + 28)
        clusters == ChainClusters(img, geo, firstCluster)
        chainBytes == Len(clusters) * geo.bytesPerCluster
        useSize == IF dirSize > 0 /\ dirSize <= chainBytes THEN dirSize ELSE chainBytes
    IN [name |-> FullName(CharsAt(img, off, 11)),
        data |-> Normal([len |-> useSize,
                         b |-> ReadClusters(img, geo, clusters, useSize, 1, Len(clusters))])]

\* Whether the extraction loop passes over the slot at off without a file:
\* deleted, long-name fragment, volume label, directory, or no data.
ExtractSkips(img, off) ==
    LET attr == Get(img, off + 11)
    IN Get(img, off) = 229 \/ attr = 15 \/ (attr \div 8) % 2 = 1
       \/ (attr \div 16) % 2 = 1 \/ U16(img, off + 26) < 2

\* for (i = 0; i < rootDirEntries; i++) { if (img[off] === 0x00) break; ... }
ExtractStep(img, geo, st) ==
    IF st.i < geo.rootDirEntries /\ Get(img, geo.rootDirStart + st.i * 32) # 0
    THEN LET off == geo.rootDirStart + st.i * 32
         IN [i |-> st.i + 1,
             files |-> IF ExtractSkips(img, off) THEN st.files
                       ELSE Append(st.files, ExtractEntry(img, geo, off)),
             done |-> FALSE]
    ELSE [st EXCEPT !.done = TRUE]

RECURSIVE ExtractRun(_, _, _, _)
ExtractRun(img, geo, st, n) ==
    IF n = 1 THEN ExtractStep(img, geo, st)
    ELSE LET half == ExtractRun(img, geo, st, n \div 2)
         IN IF half.done THEN half ELSE ExtractRun(img, geo, half, n - (n \div 2))

RECURSIVE ExtractLoop(_, _, _, _)
ExtractLoop(img, geo, st, n) ==
    LET run == ExtractRun(img, geo, st, n)
    IN IF run.done THEN run ELSE ExtractLoop(img, geo, run, 2 * n)

\* extractFilesFromImage: the files as a list of [name, data], in slot order.
extractFilesFromImage(img) ==
    LET geo == parseGeometry(img)
    IN IF ~geo.ok THEN << >>
       ELSE ExtractLoop(img, geo, [i |-> 0, files |-> << >>, done |-> FALSE], 1).files

(* ------------------------------------------------------------------ *)
(* The browser's readers                                              *)
(* ------------------------------------------------------------------ *)

\* null, and a value that is not null.
Null == [ok |-> FALSE]

Some(data) == [ok |-> TRUE, data |-> data]

\* img.slice(off, off + n) of a Uint8Array: both ends are clamped to the
\* image; the number of bytes it yields.
SliceLen(img, off, n) == Max(0, Min(img.len, off + n) - Min(img.len, Max(0, off)))

\* A directory scan that passes over subdirectories as well, as the server's
\* extraction does.
ParseDirStepNoDirs(img, geo, st) ==
    IF st.i < geo.rootDirEntries /\ Get(img, geo.rootDirStart + st.i * 32) # 0
    THEN LET off == geo.rootDirStart + st.i * 32
             attr == Get(img, off + 11)
         IN [i |-> st.i + 1,
             files |-> IF Get(img, off) = 229 \/ attr = 15 \/ (attr \div 8) % 4 # 0
                       THEN st.files
                       ELSE Append(st.files,
                                   [name |-> TrimEnd(CharsAt(img, off, 8)),
                                    ext |-> TrimEnd(CharsAt(img, off + 8, 3)),
                                    fullName |-> FullName(CharsAt(img, off, 11)),
                                    size |-> S32(img, off + 28),
                                    firstCluster |-> U16(img, off + 26),
                                    attr |-> attr,
                                    isDir |-> FALSE,
                                    offset |-> off]),
             done |-> FALSE]
    ELSE [st EXCEPT !.done = TRUE]

\* for (i = 0; i < rootDirEntries; i++) { if (firstByte === 0x00) break;
\*     if deleted, long-name or volume label continue; files.push({...}) }
ParseDirStep(img, geo, st) ==
    IF st.i < geo.rootDirEntries /\ Get(img, geo.rootDirStart + st.i * 32) # 0
    THEN LET off == geo.rootDirStart + st.i * 32
             attr == Get(img, off + 11)
             skip == Get(img, off) = 229 \/ attr = 15 \/ (attr \div 8) % 2 = 1
         IN [i |-> st.i + 1,
             files |-> IF skip THEN st.files
                       ELSE Append(st.files,
                                   [name |-> TrimEnd(CharsAt(img, off, 8)),
                                    ext |-> TrimEnd(CharsAt(img, off + 8, 3)),
                                    fullName |-> FullName(CharsAt(img, off, 11)),
                                    size |-> S32(img, off + 28),
                                    firstCluster |-> U16(img, off + 26),
                                    attr |-> attr,
                                    isDir |-> (attr \div 16) % 2 = 1,
                                    offset |-> off]),
             done |-> FALSE]
    ELSE [st EXCEPT !.done = TRUE]

RECURSIVE ParseDirRun(_, _, _, _)
ParseDirRun(img, geo, st, n) ==
    IF n = 1 THEN ParseDirStep(img, geo, st)
    ELSE LET half == ParseDirRun(img, geo, st, n \div 2)
         IN IF half.done THEN half ELSE ParseDirRun(img, geo, half, n - (n \div 2))

RECURSIVE ParseDirLoop(_, _, _, _)
ParseDirLoop(img, geo, st, n) ==
    LET run == ParseDirRun(img, geo, st, n)
    IN IF run.done THEN run ELSE ParseDirLoop(img, geo, run, 2 * n)

\* parseFATDir
parseFATDir(img, geo) ==
    IF ~geo.ok THEN << >>
    ELSE ParseDirLoop(img, geo, [i |-> 0, files |-> << >>, done |-> FALSE], 1).files

\* while (cluster >= 2 && !isEOF(geo, cluster) && written < file.size)
\*     { data.set(img.slice(clusterOffset, clusterOffset + toRead), written);
\*       written += toRead; cluster = readFATEntry(img, geo, cluster) }
ReadFileStep(img, geo, size, st) ==
    IF st.cluster >= 2 /\ ~isEOF(geo, st.cluster) /\ st.written < size
    THEN LET clusterOffset == geo.dataStart + (st.cluster - 2) * geo.bytesPerCluster
             toRead == Min(geo.bytesPerCluster, size - st.written)
         IN [cluster |-> readFATEntry(img, geo, st.cluster),
             written |-> st.written + toRead,
             b |-> st.b @@ ReadRange(img, clusterOffset,
                                     SliceLen(img, clusterOffset, toRead), st.written),
             done |-> FALSE]
    ELSE [st EXCEPT !.done = TRUE]

RECURSIVE ReadFileRun(_, _, _, _, _)
ReadFileRun(img, geo, size, st, n) ==
    IF n = 1 THEN ReadFileStep(img, geo, size, st)
    ELSE LET half == ReadFileRun(img, geo, size, st, n \div 2)
         IN IF half.done THEN half ELSE ReadFileRun(img, geo, size, half, n - (n \div 2))

RECURSIVE ReadFileLoop(_, _, _, _, _)
ReadFileLoop(img, geo, size, st, n) ==
    LET run == ReadFileRun(img, geo, size, st, n)
    IN IF run.done THEN run ELSE ReadFileLoop(img, geo, size, run, 2 * n)

\* readFATFile: file.size bytes, those the chain does not reach left 0.
readFATFile(img, geo, file) ==
    Normal([len |-> file.size,
            b |-> ReadFileLoop(img, geo, file.size,
                               [cluster |-> file.firstCluster, written |-> 0,
                                b |-> << >>, done |-> FALSE], 1).b])

\* let safety = 10000
SAFETY == 10000

\* A pass of the chain-following reader that does not count its passes: what
\* C34 rules out.
ByChainStepNoSafety(img, geo, st) ==
    IF st.cluster >= 2 /\ ~isEOF(geo, st.cluster)
    THEN LET offset == geo.dataStart + (st.cluster - 2) * geo.bytesPerCluster
             n == SliceLen(img, offset, geo.bytesPerCluster)
         IN [cluster |-> readFATEntry(img, geo, st.cluster),
             safety |-> st.safety,
             chunks |-> Append(st.chunks, [offset |-> offset, n |-> n, pos |-> st.pos]),
             pos |-> st.pos + n,
             done |-> FALSE]
    ELSE [st EXCEPT !.done = TRUE]

\* while (cluster >= 2 && !isEOF(geo, cluster) && --safety > 0)
\*     { chunks.push(img.slice(offset, offset + bytesPerCluster));
\*       cluster = readFATEntry(img, geo, cluster) }
\* A chunk is kept as the offset it was sliced from, its length, and the
\* number of bytes of the chunks before it.
ByChainStep(img, geo, st) ==
    IF st.cluster >= 2 /\ ~isEOF(geo, st.cluster) /\ st.safety - 1 > 0
    THEN LET offset == geo.dataStart + (st.cluster - 2) * geo.bytesPerCluster
             n == SliceLen(img, offset, geo.bytesPerCluster)
         IN [cluster |-> readFATEntry(img, geo, st.cluster),
             safety |-> st.safety - 1,
             chunks |-> Append(st.chunks, [offset |-> offset, n |-> n, pos |-> st.pos]),
             pos |-> st.pos + n,
             done |-> FALSE]
    ELSE [st EXCEPT !.done = TRUE]

RECURSIVE LaidOut(_, _, _, _)
\* for (const chunk of chunks) { data.set(chunk, pos); pos += chunk.length }
\* for the chunks lo..hi: those of the first half, then the rest.
LaidOut(img, chunks, lo, hi) ==
    IF lo > hi THEN << >>
    ELSE IF lo = hi
         THEN ReadRange(img, chunks[lo].offset, chunks[lo].n, chunks[lo].pos) @@ << >>
         ELSE LET mid == (lo + hi) \div 2
              IN LaidOut(img, chunks, lo, mid) @@ LaidOut(img, chunks, mid + 1, hi)

RECURSIVE ByChainRun(_, _, _, _)
ByChainRun(img, geo, st, n) ==
    IF n = 1 THEN ByChainStep(img, geo, st)
    ELSE LET half == ByChainRun(img, geo, st, n \div 2)
         IN IF half.done THEN half ELSE ByChainRun(img, geo, half, n - (n \div 2))

RECURSIVE ByChainLoop(_, _, _, _)
ByChainLoop(img, geo, st, n) ==
    LET run == ByChainRun(img, geo, st, n)
    IN IF run.done THEN run ELSE ByChainLoop(img, geo, run, 2 * n)

\* while (end > 0 && data[end - 1] === 0) end--
TrimStep(data, st) ==
    IF st.end > 0 /\ DataGet(data, st.end - 1) = 0
    THEN [end |-> st.end - 1, done |-> FALSE]
    ELSE [st EXCEPT !.done = TRUE]

RECURSIVE TrimRun(_, _, _)
TrimRun(data, st, n) ==
    IF n = 1 THEN TrimStep(data, st)
    ELSE LET half == TrimRun(data, st, n \div 2)
         IN IF half.done THEN half ELSE TrimRun(data, half, n - (n \div 2))

RECURSIVE TrimLoop(_, _, _)
TrimLoop(data, st, n) ==
    LET run == TrimRun(data, st, n)
    IN IF run.done THEN run ELSE TrimLoop(data, run, 2 * n)

\* readFATFileByChain: the clusters of the chain end to end, without the
\* trailing NUL bytes; null if there is no cluster or nothing but NULs (data
\* without a byte other than NUL is trimmed to nothing).
readFATFileByChain(img, geo, firstCluster) ==
    IF firstCluster < 2 THEN Null
    ELSE LET walk == ByChainLoop(img, geo,
                                 [cluster |-> firstCluster, safety |-> SAFETY,
                                  chunks |-> << >>, pos |-> 0, done |-> FALSE], 1)
             data == Normal([len |-> walk.pos,
                             b |-> LaidOut(img, walk.chunks, 1, Len(walk.chunks))])
             end == IF DOMAIN data.b = {} THEN 0
                    ELSE TrimLoop(data, [end |-> data.len, done |-> FALSE], 1).end
         IN IF Len(walk.chunks) = 0 \/ end = 0 THEN Null
            ELSE Some([data EXCEPT !.len = end])

\* (transcriptWatchFilename.value || "SCRIPT.TXT"): the default, "SCRIPT.TXT"
TranscriptName == << 83, 67, 82, 73, 80, 84, 46, 84, 88, 84 >>

\* readTranscriptFromDisk on a disk that is there: the bytes of the text it
\* returns (TextDecoder("ascii") turns each byte into one character), or null.
readTranscriptFromDisk(img) ==
    LET geo == parseFATGeometry(img)
        files == parseFATDir(img, geo)
        hits == SelectSeq(files, LAMBDA f : ToUpperCase(f.fullName) = TranscriptName)
    IN IF ~geo.ok \/ hits = << >> THEN Null
       ELSE LET file == hits[1]
                byChain == IF file.firstCluster >= 2
                           THEN readFATFileByChain(img, geo, file.firstCluster) ELSE Null
            IN IF byChain.ok /\ byChain.data.len > 0 THEN byChain
               ELSE IF file.size > 0 /\ readFATFile(img, geo, file).len > 0
                    THEN Some(readFATFile(img, geo, file))
                    ELSE Null

(* ------------------------------------------------------------------ *)
(* The fingerprint of the disk                                        *)
(*                                                                    *)
(* A 32-bit integer is kept as its four bytes, the least significant  *)
(* first.                                                             *)
(* ------------------------------------------------------------------ *)

\* 0x811c9dc5
FNV_OFFSET == << 197, 157, 28, 129 >>

\* 0x01000193
FNV_PRIME == << 147, 1, 0, 1 >>

\* Math.imul(a, b): the low 32 bits of the product.
Imul(a, b) ==
    LET c0 == a[1] * b[1]
        c1 == a[1] * b[2] + a[2] * b[1] + (c0 \div 256)
        c2 == a[1] * b[3] + a[2] * b[2] + a[3] * b[1] + (c1 \div 256)
        c3 == a[1] * b[4] + a[2] * b[3] + a[3] * b[2] + a[4] * b[1] + (c2 \div 256)
    IN << c0 % 256, c1 % 256, c2 % 256, c3 % 256 >>

RECURSIVE XorBits(_, _, _)
\* x ^ y for numbers of n bits.
XorBits(x, y, n) ==
    IF n = 0 THEN 0
    ELSE ((x + y) % 2) + 2 * XorBits(x \div 2, y \div 2, n - 1)

\* h ^= byte
XorByte(h, byte) == [h EXCEPT ![1] = XorBits(h[1], byte, 8)]

\* One binary digit of the count k of a run of multiplications by base.
PowStep(st) ==
    [acc |-> IF st.k % 2 = 1 THEN Imul(st.acc, st.base) ELSE st.acc,
     base |-> Imul(st.base, st.base),
     k |-> st.k \div 2]

RECURSIVE PowRun(_)
PowRun(st) == IF st.k = 0 THEN st.acc ELSE PowRun(PowStep(st))

\* h ^= 0; h = Math.imul(h, 0x01000193), k times: a run of k zero bytes.
FoldZeros(h, k) == PowRun([acc |-> h, base |-> FNV_PRIME, k |-> k])

\* for (i = from; i < to; i++) { h ^= disk[i]; h = Math.imul(h, 0x01000193) }
\* taken from one byte that is not 0 to the next: the zero bytes between
\* them, then the byte.
FoldStep(disk, st) ==
    IF st.keys # {}
    THEN LET k == CHOOSE o \in st.keys : \A p \in st.keys : o <= p
         IN [h |-> Imul(XorByte(FoldZeros(st.h, k - st.pos), disk.b[k]), FNV_PRIME),
             pos |-> k + 1, keys |-> st.keys \ {k}, done |-> FALSE]
    ELSE [st EXCEPT !.done = TRUE]

RECURSIVE FoldRun(_, _, _)
FoldRun(disk, st, n) ==
    IF n = 1 THEN FoldStep(disk, st)
    ELSE LET half == FoldRun(disk, st, n \div 2)
         IN IF half.done THEN half ELSE FoldRun(disk, half, n - (n \div 2))

RECURSIVE FoldLoop(_, _, _)
FoldLoop(disk, st, n) ==
    LET run == FoldRun(disk, st, n)
    IN IF run.done THEN run ELSE FoldLoop(disk, run, 2 * n)

\* The hash after the bytes from .. to - 1 of the disk.
FoldRegion(h, disk, from, to) ==
    LET keys == {o \in DOMAIN disk.b \cap (from .. (to - 1)) : disk.b[o] # 0}
        run == FoldLoop(disk, [h |-> h, pos |-> from, keys |-> keys, done |-> FALSE], 1)
    IN FoldZeros(run.h, to - run.pos)

\* The four bytes as the signed 32-bit number JavaScript holds.
ToInt32(h) ==
    (IF h[4] >= 128 THEN h[4] - 256 ELSE h[4]) * 16777216 + h[3] * 65536 + h[2] * 256 + h[1]

\* A fingerprint of FAT #1 alone.
diskFingerprintFatOnly(disk) ==
    LET geo == parseFATGeometry(disk)
    IN IF ~geo.ok THEN Null
       ELSE [ok |-> TRUE,
             h |-> ToInt32(FoldRegion(FNV_OFFSET, disk, geo.fatStart,
                                      geo.fatStart + geo.sectorsPerFAT * geo.bytesPerSector))]

\* A fingerprint of every byte of the disk.
diskFingerprintWhole(disk) ==
    LET geo == parseFATGeometry(disk)
    IN IF ~geo.ok THEN Null
       ELSE [ok |-> TRUE, h |-> ToInt32(FoldRegion(FNV_OFFSET, disk, 0, disk.len))]

\* diskFingerprint on a disk that getDiskBytes returns: the hash of FAT #1
\* and the root directory, or null.
diskFingerprint(disk) ==
    LET geo == parseFATGeometry(disk)
    IN IF ~geo.ok THEN Null
       ELSE LET fatEnd == geo.fatStart + geo.sectorsPerFAT * geo.bytesPerSector
                rdEnd == geo.rootDirStart + geo.rootDirEntries * 32
                afterFat == FoldRegion(FNV_OFFSET, disk, geo.fatStart, fatEnd)
            IN [ok |-> TRUE, h |-> ToInt32(FoldRegion(afterFat, disk, geo.rootDirStart, rdEnd))]

(* ------------------------------------------------------------------ *)
(* The server: the workspace directory and the images built from it   *)
(*                                                                    *)
(* The directory WORKSPACE_FILES is a function from the names of its  *)
(* files to [data, mtime].                                            *)
(* ------------------------------------------------------------------ *)

\* 16 * 1024 * 1024: a larger file is left out of the image
SKIP_ABOVE == 16777216

\* files without the file of that name.
Without(files, names) == [n \in DOMAIN files \ names |-> files[n]] @@ << >>

\* snapshotFileState
snapshotFileState(files) ==
    [n \in DOMAIN files |-> [size |-> files[n].data.len, mtimeMs |-> files[n].mtime]] @@ << >>

\* The changes GET /api/workspace/changes reports: added or modified files,
\* then deleted ones, as a set of [name, type].
ChangesSince(known, files) ==
    LET current == snapshotFileState(files)
    IN {[name |-> n, type |-> "added"] : n \in DOMAIN current \ DOMAIN known}
       \cup {[name |-> n, type |-> "modified"] :
                n \in {m \in DOMAIN current \cap DOMAIN known : known[m] # current[m]}}
       \cup {[name |-> n, type |-> "deleted"] : n \in DOMAIN known \ DOMAIN current}

\* A build that gives up at the first write that fails.
BuildStepAborts(files, entries, geo, st) ==
    IF st.i < Len(entries)
    THEN LET entry == entries[st.i + 1]
             result == writeFileToImage(st.img, geo, entry, files[entry].data)
         IN IF files[entry].data.len > SKIP_ABOVE
            THEN [i |-> st.i + 1, img |-> st.img, done |-> FALSE]
            ELSE [i |-> IF result.ok THEN st.i + 1 ELSE Len(entries),
                  img |-> result.img, done |-> FALSE]
    ELSE [st EXCEPT !.done = TRUE]

\* for (const entry of entries) { if (stat.size > 16 MiB) continue;
\*     writeFileToImage(img, geo, entry, fileData) }   (the result is only logged)
BuildStep(files, entries, geo, st) ==
    IF st.i < Len(entries)
    THEN LET entry == entries[st.i + 1]
         IN [i |-> st.i + 1,
             img |-> IF files[entry].data.len > SKIP_ABOVE THEN st.img
                     ELSE writeFileToImage(st.img, geo, entry, files[entry].data).img,
             done |-> FALSE]
    ELSE [st EXCEPT !.done = TRUE]

RECURSIVE BuildRun(_, _, _, _, _)
BuildRun(files, entries, geo, st, n) ==
    IF n = 1 THEN BuildStep(files, entries, geo, st)
    ELSE LET half == BuildRun(files, entries, geo, st, n \div 2)
         IN IF half.done THEN half ELSE BuildRun(files, entries, geo, half, n - (n \div 2))

RECURSIVE BuildLoop(_, _, _, _, _)
BuildLoop(files, entries, geo, st, n) ==
    LET run == BuildRun(files, entries, geo, st, n)
    IN IF run.done THEN run ELSE BuildLoop(files, entries, geo, run, 2 * n)

\* The loop of buildImageFromDirectory on the blank image and its geometry.
BuildWith(files, entries, blank, geo) ==
    IF ~geo.ok THEN [ok |-> FALSE, img |-> ZeroImage(0)]
    ELSE [ok |-> TRUE,
          img |-> BuildLoop(files, entries, geo, [i |-> 0, img |-> blank, done |-> FALSE], 1).img]

\* buildImageFromDirectory from the blank image on; an exception of
\* createBlankImage is [ok |-> FALSE].
BuildOn(files, entries, blank) ==
    IF ~blank.ok THEN [ok |-> FALSE, img |-> ZeroImage(0)]
    ELSE BuildWith(files, entries, blank.img, parseGeometry(blank.img))

\* buildImageFromDirectory.  entries is fs.readdirSync(dirPath): the names of
\* the directory in the order the file system lists them.
buildImageFromDirectory(files, entries, sizeMB, now32) ==
    BuildOn(files, entries, createBlankImage(sizeMB, now32))

\* The orders in which a directory with these names can be listed.
Listings(names) ==
    {order \in [1 .. Cardinality(names) -> names] :
        \A i, j \in 1 .. Cardinality(names) : i # j => order[i] # order[j]}

\* The loop of the route without the comparison: every extracted file is
\* written and reported.
SyncWriteStepAlways(extracted, now, st) ==
    IF st.i < Len(extracted)
    THEN LET f == extracted[st.i + 1]
         IN [i |-> st.i + 1,
             files |-> (f.name :> [data |-> f.data, mtime |-> now]) @@ st.files,
             changed |-> Append(st.changed, f.name),
             done |-> FALSE]
    ELSE [st EXCEPT !.done = TRUE]

\* for (const f of extracted) { needWrite unless the file is there with the
\*     same bytes; if (needWrite) { writeFileSync; changed.push(f.name) } }
SyncWriteStep(extracted, now, st) ==
    IF st.i < Len(extracted)
    THEN LET f == extracted[st.i + 1]
             needWrite == ~(f.name \in DOMAIN st.files /\ st.files[f.name].data = f.data)
         IN [i |-> st.i + 1,
             files |-> IF needWrite
                       THEN (f.name :> [data |-> f.data, mtime |-> now]) @@ st.files
                       ELSE st.files,
             changed |-> IF needWrite THEN Append(st.changed, f.name) ELSE st.changed,
             done |-> FALSE]
    ELSE [st EXCEPT !.done = TRUE]

RECURSIVE SyncWriteRun(_, _, _, _)
SyncWriteRun(extracted, now, st, n) ==
    IF n = 1 THEN SyncWriteStep(extracted, now, st)
    ELSE LET half == SyncWriteRun(extracted, now, st, n \div 2)
         IN IF half.done THEN half ELSE SyncWriteRun(extracted, now, half, n - (n \div 2))

RECURSIVE SyncWriteLoop(_, _, _, _)
SyncWriteLoop(extracted, now, st, n) ==
    LET run == SyncWriteRun(extracted, now, st, n)
    IN IF run.done THEN run ELSE SyncWriteLoop(extracted, now, run, 2 * n)

\* The end of POST /api/workspace/live-sync: the files of the directory that
\* were not extracted are removed.
LiveSyncRemove(extracted, wrote, extractedNames) ==
    [files |-> Without(wrote.files, DOMAIN wrote.files \ extractedNames),
     total |-> Len(extracted),
     written |-> {wrote.changed[k] : k \in 1 .. Len(wrote.changed)},
     removed |-> DOMAIN wrote.files \ extractedNames]

\* POST /api/workspace/live-sync from the extracted files on: they are
\* written where they differ.
LiveSyncWrite(files, extracted, now) ==
    LiveSyncRemove(extracted,
                   SyncWriteLoop(extracted, now,
                                 [i |-> 0, files |-> files, changed |-> << >>, done |-> FALSE], 1),
                   {extracted[k].name : k \in 1 .. Len(extracted)})

\* The body of POST /api/workspace/live-sync on the image of the request.
LiveSyncFiles(files, imgData, now) ==
    LiveSyncWrite(files, extractFilesFromImage(imgData), now)

(* ------------------------------------------------------------------ *)
(* TextCap: the marker detector and the ANSI parser of the serial     *)
(* bytes                                                              *)
(*                                                                    *)
(* A row of the buffer is a JavaScript array: its length, and by      *)
(* column the cells that hold something other than a space.  The      *)
(* state of TextCap is a record of the variables of the code.         *)
(* ------------------------------------------------------------------ *)

\* "a virtual 25x80 text buffer"
ROWS == 25

COLS == 80

\* Startup marker: ESC [ T C ]
TC_MARKER == << 27, 91, 84, 67, 93 >>

\* The states of the parser.
TC_NORMAL == "TC_NORMAL"

TC_ESC == "TC_ESC"

TC_CSI == "TC_CSI"

\* new Array(COLS).fill(0x20)
BlankRow == [len |-> COLS, b |-> << >>]

\* row[c] = byte: a cell behind the end of the array makes the array longer.
SetCell(row, c, byte) ==
    IF c < 0 THEN row
    ELSE [len |-> Max(row.len, c + 1),
          b |-> IF byte = 32 THEN [k \in DOMAIN row.b \ {c} |-> row.b[k]]
                ELSE (c :> byte) @@ row.b]

\* for (let c = from; c < COLS; c++) row[c] = 0x20
EraseFrom(row, from) ==
    IF from >= COLS THEN row
    ELSE [len |-> Max(row.len, COLS),
          b |-> [k \in {j \in DOMAIN row.b : j < from \/ j >= COLS} |-> row.b[k]]]

\* textCapBuffer[r]: the row is there.
HasRow(buffer, r) == r >= 0 /\ r < Len(buffer)

\* textCapScrollUp: nothing without a buffer; else textCapBuffer.shift();
\* textCapBuffer.push(blank row)
textCapScrollUp(buffer) ==
    IF buffer = << >> THEN buffer ELSE Tail(buffer) \o << BlankRow >>

\* initTextCapBuffer
initTextCapBuffer(st) ==
    [st EXCEPT !.textCapBuffer = [r \in 1 .. ROWS |-> BlankRow],
               !.textCapCurRow = 0,
               !.textCapCurCol = 0,
               !.textCapDirty = FALSE,
               !.textCapParseState = TC_NORMAL,
               !.textCapCsiParams = << >>]

RECURSIVE SplitAt(_, _)
\* params.split(";"): the pieces between the semicolons, at least one.
SplitAt(s, sep) ==
    IF \A k \in 1 .. Len(s) : s[k] # sep THEN << s >>
    ELSE LET k == CHOOSE j \in 1 .. Len(s) : s[j] = sep /\ \A m \in 1 .. (j - 1) : s[m] # sep
         IN << SubSeq(s, 1, k - 1) >> \o SplitAt(SubSeq(s, k + 1, Len(s)), sep)

RECURSIVE DigitsValue(_, _, _)
\* The number the digits of s from index i on stand for, after acc.  A number
\* of more than nine digits is kept as its first nine: it is far above every
\* number the parser compares it with.
DigitsValue(s, i, acc) ==
    IF i > Len(s) \/ s[i] < 48 \/ s[i] > 57 THEN acc
    ELSE DigitsValue(s, i + 1, IF acc >= 100000000 THEN acc ELSE acc * 10 + (s[i] - 48))

RECURSIVE SkipSpaces(_, _)
\* The index of the first character of s from i on that is not a space.
SkipSpaces(s, i) == IF i <= Len(s) /\ s[i] = 32 THEN SkipSpaces(s, i + 1) ELSE i

\* n = parseInt(s, 10); isNaN(n) ? -1 : n.  parseInt skips white space, takes
\* a sign, then the digits up to the first character that is none.
ParamValue(s) ==
    LET i == SkipSpaces(s, 1)
        signed == i <= Len(s) /\ s[i] \in {43, 45}
        d == IF signed THEN i + 1 ELSE i
    IN IF d > Len(s) \/ s[d] < 48 \/ s[d] > 57 THEN -1
       ELSE IF signed /\ s[i] = 45 THEN 0 - DigitsValue(s, d, 0)
       ELSE DigitsValue(s, d, 0)

\* parts[i] > 0 ? parts[i] : 1, parts[i] undefined if there is no such piece
ParamOr1(parts, i) == IF i + 1 <= Len(parts) /\ parts[i + 1] > 0 THEN parts[i + 1] ELSE 1

\* The buffer with the row of the cursor erased from the cursor on; raised if
\* the buffer has no such row (TypeError).
EraseInRow(st) ==
    IF HasRow(st.textCapBuffer, st.textCapCurRow)
    THEN [st EXCEPT !.textCapBuffer[st.textCapCurRow + 1] = EraseFrom(@, st.textCapCurCol),
                    !.textCapDirty = TRUE]
    ELSE [st EXCEPT !.raised = TRUE]

\* textCapDispatchCSI(cmd, params)
textCapDispatchCSI(st, cmd, params) ==
    LET pieces == SplitAt(params, 59)
        parts == [k \in 1 .. Len(pieces) |-> ParamValue(pieces[k])]
    IN IF cmd = 72
       THEN EraseInRow([st EXCEPT
                !.textCapCurRow = Max(0, Min(ROWS - 1, ParamOr1(parts, 0) - 1)),
                !.textCapCurCol = Max(0, Min(COLS - 1, ParamOr1(parts, 1) - 1))])
       ELSE IF cmd = 74
       THEN IF parts[1] = 2
            THEN [st EXCEPT !.textCapBuffer =
                                [r \in 1 .. Len(st.textCapBuffer) |->
                                     [len |-> st.textCapBuffer[r].len, b |-> << >>]],
                            !.textCapDirty = TRUE]
            ELSE st
       ELSE IF cmd = 75
       THEN IF parts[1] <= 0 THEN EraseInRow(st) ELSE st
       ELSE st

\* textCapCurRow++; if (textCapCurRow >= ROWS) { textCapScrollUp();
\*     textCapCurRow = ROWS - 1 }
NextRow(st) ==
    IF st.textCapCurRow + 1 >= ROWS
    THEN [st EXCEPT !.textCapBuffer = textCapScrollUp(@),
                    !.textCapDirty = TRUE,
                    !.textCapCurRow = ROWS - 1]
    ELSE [st EXCEPT !.textCapCurRow = @ + 1]

\* The branch of a printable character without the test that the cursor is
\* on the grid and without the step to the next row: what C39 rules out.
PutCharNoWrap(st, byte) ==
    LET put == IF HasRow(st.textCapBuffer, st.textCapCurRow)
               THEN [st EXCEPT !.textCapBuffer[st.textCapCurRow + 1] =
                                   SetCell(@, st.textCapCurCol, byte),
                               !.textCapDirty = TRUE]
               ELSE st
    IN [put EXCEPT !.textCapCurCol = @ + 1]

\* The branch of a printable character: the cell of the cursor, then the
\* cursor one to the right, to the next row behind the last column.
PutChar(st, byte) ==
    LET put == IF st.textCapCurRow >= 0 /\ st.textCapCurRow < ROWS
                  /\ st.textCapCurCol >= 0 /\ st.textCapCurCol < COLS
               THEN [st EXCEPT !.textCapBuffer[st.textCapCurRow + 1] =
                                   SetCell(@, st.textCapCurCol, byte),
                               !.textCapDirty = TRUE]
               ELSE st
    IN IF put.textCapCurCol + 1 >= COLS
       THEN NextRow([put EXCEPT !.textCapCurCol = 0])
       ELSE [put EXCEPT !.textCapCurCol = @ + 1]

\* textCapParseByte(byte)
textCapParseByte(st, byte) ==
    IF st.textCapParseState = TC_NORMAL
    THEN IF byte = 27 THEN [st EXCEPT !.textCapParseState = TC_ESC]
         ELSE IF byte = 13 THEN [st EXCEPT !.textCapCurCol = 0]
         ELSE IF byte = 10 THEN [NextRow(st) EXCEPT !.textCapDirty = TRUE]
         ELSE IF byte = 8
         THEN IF st.textCapCurCol > 0 THEN [st EXCEPT !.textCapCurCol = @ - 1] ELSE st
         ELSE IF byte >= 32 THEN PutChar(st, byte)
         ELSE st
    ELSE IF st.textCapParseState = TC_ESC
    THEN IF byte = 91
         THEN [st EXCEPT !.textCapParseState = TC_CSI, !.textCapCsiParams = << >>]
         ELSE [st EXCEPT !.textCapParseState = TC_NORMAL]
    ELSE IF st.textCapParseState = TC_CSI
    THEN IF byte >= 32 /\ byte <= 63
         THEN [st EXCEPT !.textCapCsiParams = Append(@, byte)]
         ELSE LET done == textCapDispatchCSI(st, byte, st.textCapCsiParams)
              IN IF done.raised THEN done
                 ELSE [done EXCEPT !.textCapParseState = TC_NORMAL]
    ELSE [st EXCEPT !.textCapParseState = TC_NORMAL]

\* checkTextCapMarker(byte): the position in the marker it leaves, and what
\* it returns.
checkTextCapMarker(pos, byte) ==
    IF byte = TC_MARKER[pos + 1]
    THEN IF pos + 1 >= Len(TC_MARKER) THEN [pos |-> 0, found |-> TRUE]
         ELSE [pos |-> pos + 1, found |-> FALSE]
    ELSE [pos |-> 0, found |-> FALSE]

\* The serial capture without TextCap: CR dropped, LF kept as "\n", the
\* printable ASCII characters kept.
SerialCapture(st, byte) ==
    IF byte = 13 THEN st
    ELSE IF byte = 10 THEN [st EXCEPT !.serialBuffer = Append(@, 10)]
    ELSE IF byte >= 32 /\ byte < 127 THEN [st EXCEPT !.serialBuffer = Append(@, byte)]
    ELSE st

\* The listener of "serial0-output-byte", with the trace switched off: the
\* marker test while TextCap is not active; then the parser, which is not
\* given the framing bytes 0x02 and 0x03, or the serial capture.  raised says that this call has
\* ended in a TypeError.
SerialListener(was, byte) ==
    LET st == [was EXCEPT !.raised = FALSE]
        check == checkTextCapMarker(st.textCapMarkerPos, byte)
    IN IF ~st.textCapActive /\ check.found
       THEN initTextCapBuffer([st EXCEPT !.textCapMarkerPos = check.pos,
                                         !.textCapActive = TRUE])
       ELSE LET seen == IF st.textCapActive THEN st
                        ELSE [st EXCEPT !.textCapMarkerPos = check.pos]
            IN IF seen.textCapActive
               THEN IF byte \in {2, 3} THEN seen ELSE textCapParseByte(seen, byte)
               ELSE SerialCapture(seen, byte)

\* TextCap when the page has loaded.
PageLoad ==
    [textCapActive |-> FALSE, textCapBuffer |-> << >>, textCapCurRow |-> 0,
     textCapCurCol |-> 0, textCapDirty |-> FALSE, textCapParseState |-> TC_NORMAL,
     textCapCsiParams |-> << >>, textCapMarkerPos |-> 0, serialBuffer |-> << >>,
     raised |-> FALSE]

RECURSIVE Fed(_, _)
\* TextCap after the listener has been given the bytes of s one by one.
Fed(st, s) == IF s = << >> THEN st ELSE Fed(SerialListener(st, Head(s)), Tail(s))

(* ------------------------------------------------------------------ *)
(* State                                                              *)
(* ------------------------------------------------------------------ *)

VARIABLES
    img,    \* the image buffer the writers work on; the disk of the emulator
    prev,   \* the image as it was before the last write
    log,    \* the writes made so far: [name, data, ok, by]
    out,    \* what the readers returned, one entry per read: [by, ...]
    host,                \* the files of WORKSPACE_FILES: name -> [data, mtime]
    lastKnownFileState,  \* server: name -> [size, mtimeMs]
    clock,               \* the time of the host, stepped by the host user's writes
    wsSyncTimer,         \* browser: the interval of syncTick is set
    wsPollTimer,         \* browser: the interval of pollServerChanges is set
    wsCommandSyncTimer,  \* browser: the handle of the post-command timeout, or 0 for null
    commandTimeouts,     \* browser: the post-command timeouts that are pending:
                         \* handle -> the time left until it fires
    workspaceToggle,     \* browser: the workspace checkbox is checked
    initialPush,         \* browser: the timeout of startLiveSync's first push is pending
    wsSyncing,           \* browser: the guard flag
    wsLastFingerprint,   \* browser: null or [ok, h]
    push,                \* the push in flight: [phase, image, ok]
    polls,               \* the calls of pollServerChanges in flight: [phase, hasChanges, ok, image]
    hostOps,             \* the files the server has written or removed: [op, name]
    guestWrote,          \* the names, as on the disk, of the files put on the disk in the browser
    change,              \* a change of the host files: "none"; "reported" to a poll, the files
                         \* untouched since; "lost", the pull for it over and the disk not replaced
    textCapActive,       \* browser: the startup marker of TextCap has been seen
    textCapBuffer,       \* browser: the rows of the text grid; << >> for null
    textCapCurRow,       \* browser: the cursor of the parser
    textCapCurCol,
    textCapDirty,        \* browser: the grid has changed since it was rendered
    textCapParseState,   \* browser: TC_NORMAL, TC_ESC or TC_CSI
    textCapCsiParams,    \* browser: the parameter bytes of the sequence being read
    textCapMarkerPos,    \* browser: the bytes of the marker matched so far
    serialBuffer,        \* browser: the text captured from the serial port without TextCap
    serial               \* the bytes the guest has sent to the serial port

textCapVars ==
    << textCapActive, textCapBuffer, textCapCurRow, textCapCurCol, textCapDirty,
       textCapParseState, textCapCsiParams, textCapMarkerPos, serialBuffer, serial >>

diskVars == << prev, log, out >>

liveVars ==
    << host, lastKnownFileState, clock, wsSyncTimer, wsPollTimer, wsCommandSyncTimer,
       commandTimeouts, workspaceToggle, initialPush, wsSyncing, wsLastFingerprint, push,
       polls, hostOps, guestWrote, change >>

\* What a step of live sync leaves alone.
writerVars == << diskVars, textCapVars >>

\* What a step on the image leaves alone.
syncVars == << liveVars, textCapVars >>

vars == << img, diskVars, liveVars, textCapVars >>

\* The variables of TextCap hold the state st.
TextCapIs(st) ==
    /\ textCapActive = st.textCapActive
    /\ textCapBuffer = st.textCapBuffer
    /\ textCapCurRow = st.textCapCurRow
    /\ textCapCurCol = st.textCapCurCol
    /\ textCapDirty = st.textCapDirty
    /\ textCapParseState = st.textCapParseState
    /\ textCapCsiParams = st.textCapCsiParams
    /\ textCapMarkerPos = st.textCapMarkerPos
    /\ serialBuffer = st.serialBuffer

\* No byte has come from the serial port since the page was loaded.
TextCapOff == TextCapIs(PageLoad) /\ serial = << >>

\* No push in flight.
NoPush == [phase |-> "idle", image |-> ZeroImage(0), ok |-> FALSE]

\* The page before live sync is started, the workspace directory holding
\* these files when the server took its first snapshot.
LiveOffOn(files) ==
    /\ host = files
    /\ lastKnownFileState = snapshotFileState(files)
    /\ clock = 0
    /\ wsSyncTimer = FALSE
    /\ wsPollTimer = FALSE
    /\ wsCommandSyncTimer = 0
    /\ commandTimeouts = << >>
    /\ workspaceToggle = FALSE
    /\ initialPush = FALSE
    /\ wsSyncing = FALSE
    /\ wsLastFingerprint = Null
    /\ push = NoPush
    /\ polls = << >>
    /\ hostOps = {}
    /\ guestWrote = {}
    /\ change = "none"

\* The same, and nothing heard from the serial port.
SyncOffOn(files) == LiveOffOn(files) /\ TextCapOff

\* The same with the workspace directory empty.
SyncOff == SyncOffOn(<< >>)

(* ------------------------------------------------------------------ *)
(* A small volume: the writers and readers on a FAT12 floppy-like     *)
(* image with few clusters and few directory slots.                   *)
(* ------------------------------------------------------------------ *)

\* Data clusters of the small volume.
SmallClusters == 3

\* Root-directory slots of the small volume.
SmallSlots == 2

\* Bytes per sector (and per cluster) of the small volume: the least that
\* parseGeometry / parseFATGeometry accept.
SmallSector == 128

\* Writes per run.
MaxWrites == 3

\* A formatted volume without partition table: boot sector with its BPB, two
\* FATs of one sector with entries 0 and 1 reserved, one root-directory
\* sector, SmallClusters clusters of one sector.
SmallVolume ==
    LET sectors == 4 + SmallClusters
        bpb == At(11, UInt16LE(SmallSector)) @@ At(13, << 1 >>) @@ At(14, UInt16LE(1))
               @@ At(16, << 2 >>) @@ At(17, UInt16LE(SmallSlots))
               @@ At(19, UInt16LE(sectors)) @@ At(21, << 248 >>) @@ At(22, UInt16LE(1))
        fats == At(SmallSector, << 248, 255, 255 >>) @@ At(2 * SmallSector, << 248, 255, 255 >>)
    IN Normal(Poke(ZeroImage(sectors * SmallSector), bpb @@ fats))

\* File names given to the writers, as character codes: "A", "b.txt", "C.X".
SmallNames == { << 65 >>, << 98, 46, 116, 120, 116 >>, << 67, 46, 88 >> }

\* File contents given to the writers: empty, less than a cluster, more than
\* a cluster, more than the clusters of the volume.
SmallData ==
    { EmptyData,
      [len |-> 3, b |-> (0 :> 7 @@ 2 :> 9)],
      [len |-> SmallSector + 2, b |-> (0 :> 1 @@ (SmallSector + 1) :> 2)],
      [len |-> SmallSector * SmallClusters + 1, b |-> (0 :> 3)] }

InitSmall ==
    /\ img = SmallVolume
    /\ prev = SmallVolume
    /\ log = << >>
    /\ out = << >>
    /\ SyncOff

\* One call of a writer on the buffer: the image is changed in place, the
\* result is what the call returns.
Write(by, result, name, data) ==
    /\ img' = result.img
    /\ prev' = img
    /\ log' = Append(log, [name |-> name, data |-> data, ok |-> result.ok, by |-> by])
    /\ UNCHANGED << out, syncVars >>

\* writeFileToImage(img, parseGeometry(img), name, data)
ServerWrite(name, data) ==
    /\ Len(log) < MaxWrites
    /\ parseGeometry(img).ok
    /\ Write("server", writeFileToImage(img, parseGeometry(img), name, data), name, data)

\* writeFATFile(img, parseFATGeometry(img), name, data)
BrowserWrite(name, data) ==
    /\ Len(log) < MaxWrites
    /\ parseFATGeometry(img).ok
    /\ Write("browser", writeFATFile(img, parseFATGeometry(img), name, data), name, data)

NextSmall ==
    \E name \in SmallNames, data \in SmallData :
        \/ ServerWrite(name, data)
        \/ BrowserWrite(name, data)

SpecSmall == InitSmall /\ [][NextSmall]_vars

(* ------------------------------------------------------------------ *)
(* A blank image of the server: createBlankImage(32), then writes.    *)
(* ------------------------------------------------------------------ *)

\* Size of the image the server builds when none is asked for, in MiB.
DefaultSizeMB == 32

\* Date.now() & 0xFFFFFFFF at the time the blank image is made.
VolumeSerial == 305419896

\* Clusters of the large file: enough to reach the FAT entries that the byte
\* 131070 of a FAT stands for in the next FAT.
LargeClusters == 510

\* "a.txt", "GAME.DAT"
BlankNames == { << 97, 46, 116, 120, 116 >>, << 71, 65, 77, 69, 46, 68, 65, 84 >> }

\* Empty, less than a cluster, many clusters.
BlankData ==
    { EmptyData,
      [len |-> 3, b |-> (0 :> 7 @@ 2 :> 9)],
      [len |-> (LargeClusters - 1) * BYTES_PER_SECTOR + 5,
       b |-> (0 :> 1 @@ ((LargeClusters - 1) * BYTES_PER_SECTOR + 4) :> 2)] }

BlankImage == createBlankImage(DefaultSizeMB, VolumeSerial).img

InitBlank ==
    /\ img = BlankImage
    /\ prev = BlankImage
    /\ log = << >>
    /\ out = << >>
    /\ SyncOff

NextBlank == \E name \in BlankNames, data \in BlankData : ServerWrite(name, data)

SpecBlank == InitBlank /\ [][NextBlank]_vars

(* ------------------------------------------------------------------ *)
(* The smallest image of the server: createBlankImage(4), then writes *)
(* ------------------------------------------------------------------ *)

\* sizeMB = Math.max(4, Math.min(512, sizeMB))
MinSizeMB == 4

MaxSizeMB == 512

\* Clusters of the long file written into the smallest image.
LongClusters == 200

\* Empty, less than a cluster, and LongClusters clusters whose last two bytes
\* are not 0 in any cluster.
MinData ==
    { EmptyData,
      [len |-> 3, b |-> (0 :> 7 @@ 2 :> 9)],
      [len |-> LongClusters * BYTES_PER_SECTOR,
       b |-> [o \in {BYTES_PER_SECTOR * k + r : k \in 1 .. LongClusters, r \in {-2, -1}}
                 |-> 1 + (o % 2)]] }

MinImage == createBlankImage(MinSizeMB, VolumeSerial).img

InitMin ==
    /\ img = MinImage
    /\ prev = MinImage
    /\ log = << >>
    /\ out = << >>
    /\ SyncOff

NextMin == \E name \in BlankNames, data \in MinData : ServerWrite(name, data)

SpecMin == InitMin /\ [][NextMin]_vars

(* ------------------------------------------------------------------ *)
(* Reading a disk the guest has written: the small volume with one    *)
(* directory entry and any links in its FAT.                          *)
(* ------------------------------------------------------------------ *)

\* The links the FAT of the guest's disk has from cluster 2 on (an entry not
\* named is 0): chains of one, two and three clusters, a chain that runs into
\* a free entry, a cluster linked to itself, two clusters linked in a ring.
GuestLinks ==
    { (2 :> 4095), (2 :> 3 @@ 3 :> 4095), (2 :> 3 @@ 3 :> 4 @@ 4 :> 4095),
      (2 :> 3 @@ 3 :> 0), (2 :> 2), (2 :> 3 @@ 3 :> 2) }

\* The sizes the directory entry of the guest's disk has: 0 (file still
\* open), less than a cluster, a cluster, more than one, more than two.
GuestSizes ==
    {0, 3, SmallSector, SmallSector + 2, 2 * SmallSector, 2 * SmallSector + 5}

RECURSIVE WithEntries(_, _, _, _)
\* The image with FAT entry c, c + 1, ... set as entries says.
WithEntries(image, geo, entries, c) ==
    IF c > SmallClusters + 1 THEN image
    ELSE WithEntries(writeFATEntry(image, geo, c, IF c \in DOMAIN entries THEN entries[c] ELSE 0),
                     geo, entries, c + 1)

\* The guest's disk as getDiskBytes hands it out: SCRIPT.TXT in slot 0 with
\* first cluster 2 and the given size, cluster c holding the byte c at its
\* start, the FAT as entries says.
GuestDisk(entries, size) ==
    LET geo == parseGeometry(SmallVolume)
        content == [o \in {geo.dataStart + (c - 2) * geo.bytesPerCluster :
                               c \in 2 .. (SmallClusters + 1)}
                      |-> 2 + ((o - geo.dataStart) \div geo.bytesPerCluster)]
        entry == DirEntryBytes(geo.rootDirStart, Name83(TranscriptName), 2, size)
    IN Normal(Poke(WithEntries(SmallVolume, geo, entries, 2), content @@ entry))

\* What slot 1 of the guest's disk holds: a subdirectory, or a closed empty
\* file, which has no cluster.
GuestSecond == {"directory", "empty file"}

\* The disk with the entry of that kind in slot 1: SUB with attribute 0x10 and
\* first cluster 4, or EMPTY with first cluster 0.
WithSecond(disk, kind) ==
    LET geo == parseGeometry(SmallVolume)
        off == geo.rootDirStart + 32
    IN IF kind = "directory"
       THEN Normal(Poke(disk, (off + 11 :> 16)
                              @@ DirEntryBytes(off, Name83(<< 83, 85, 66 >>), 4, 0)))
       ELSE Normal(Poke(disk, DirEntryBytes(off, Name83(<< 69, 77, 80, 84, 89 >>), 0, 0)))

\* A formatted volume with SAFETY clusters of one sector and 16-bit FAT
\* entries: boot sector, two FATs, one root-directory sector.
LongVolume ==
    LET spf == CeilDiv(2 * (SAFETY + 2), SmallSector)
        sectors == 2 + 2 * spf + SAFETY
        bpb == At(11, UInt16LE(SmallSector)) @@ At(13, << 1 >>) @@ At(14, UInt16LE(1))
               @@ At(16, << 2 >>) @@ At(17, UInt16LE(SmallSlots))
               @@ At(19, UInt16LE(sectors)) @@ At(21, << 248 >>) @@ At(22, UInt16LE(spf))
        fats == At(SmallSector, << 248, 255, 255, 255 >>)
                @@ At((1 + spf) * SmallSector, << 248, 255, 255, 255 >>)
    IN Normal(Poke(ZeroImage(sectors * SmallSector), bpb @@ fats))

\* The lengths of the long transcripts, in clusters: as many as
\* readFATFileByChain reads at most, and one more.
LongChains == {SAFETY - 1, SAFETY}

\* The guest's disk with a transcript that is still open and n clusters long:
\* SCRIPT.TXT in slot 0 with size 0, its chain 2, 3, ..., n + 1 in both FATs,
\* the text from the first byte of the first cluster to the first byte of the
\* last one, NUL but for these two.
LongDisk(n) ==
    LET geo == parseGeometry(LongVolume)
        entry == DirEntryBytes(geo.rootDirStart, Name83(TranscriptName), 2, 0)
        link(c) == IF c = n + 1 THEN EofMark(geo) ELSE c + 1
        fat(r) == IF r % 2 = 0 THEN link(r \div 2) % 256 ELSE link(r \div 2) \div 256
        inFat(base, o) == o >= base + 4 /\ o < base + 2 * (n + 2)
        byte(o) == IF inFat(geo.fatStart, o) THEN fat(o - geo.fatStart)
                   ELSE IF inFat(geo.fat2Start, o) THEN fat(o - geo.fat2Start)
                   ELSE IF o >= geo.dataStart THEN 84
                   ELSE IF o \in DOMAIN entry THEN entry[o]
                   ELSE Get(LongVolume, o)
        offsets == DOMAIN LongVolume.b \cup DOMAIN entry
                   \cup ((geo.fatStart + 4) .. (geo.fatStart + 2 * (n + 2) - 1))
                   \cup ((geo.fat2Start + 4) .. (geo.fat2Start + 2 * (n + 2) - 1))
                   \cup {geo.dataStart, geo.dataStart + (n - 1) * geo.bytesPerCluster}
    IN [len |-> LongVolume.len, b |-> [o \in {q \in offsets : byte(q) # 0} |-> byte(o)] @@ << >>]

InitRead ==
    /\ \/ \E entries \in GuestLinks, size \in GuestSizes, kind \in GuestSecond :
              img = WithSecond(GuestDisk(entries, size), kind)
       \/ \E n \in LongChains : img = LongDisk(n)
    /\ prev = IF img.len = LongVolume.len THEN LongVolume ELSE img
    /\ log = << >>
    /\ out = << >>
    /\ SyncOff

\* The server extracts the files of the image a push has sent.
ServerExtract ==
    /\ out = << >>
    /\ out' = << [by |-> "extractFilesFromImage", files |-> extractFilesFromImage(img)] >>
    /\ UNCHANGED << img, prev, log, syncVars >>

\* The browser reads the transcript from the disk.
TranscriptRead ==
    /\ out = << >>
    /\ out' = << [by |-> "readTranscriptFromDisk", text |-> readTranscriptFromDisk(img)] >>
    /\ UNCHANGED << img, prev, log, syncVars >>

NextRead == ServerExtract \/ TranscriptRead

SpecRead == InitRead /\ [][NextRead]_vars

(* ------------------------------------------------------------------ *)
(* The walks along a cluster chain, on a disk with any links in its   *)
(* FAT.  A walk is run for as many passes as its bound allows and     *)
(* one test more; a walk that has not ended by then never returns.    *)
(* ------------------------------------------------------------------ *)

\* The links of GuestLinks, and links that leave the volume: to cluster 1, to
\* a cluster behind the last one, to a cluster behind the end of the buffer.
WalkLinks == GuestLinks \cup { (2 :> 1), (2 :> 3 @@ 3 :> 9), (2 :> 4000) }

\* Passes of the loop of readFATFile: every pass adds min(bytesPerCluster,
\* size - written) to written, and the loop goes on while written < size.
ReadFileBound(geo, size) == CeilDiv(size, geo.bytesPerCluster)

\* Passes of the loop of readFATFileByChain: --safety > 0.
ByChainBound == SAFETY - 1

\* Passes of the walk of extractFilesFromImage: clusters.length < maxClusters.
ChainBound(geo) == geo.totalClusters + 2

\* Passes of the release loop of the writers: a pass stores 0 in the entry it
\* has read, so a cluster met again ends the loop, and the loop takes no
\* cluster from the end-of-chain values on.
FreeOldBound(geo) == IF geo.fatType = 12 THEN 4088 ELSE 65528

InitWalk ==
    /\ \E entries \in WalkLinks, size \in GuestSizes : img = GuestDisk(entries, size)
    /\ prev = img
    /\ log = << >>
    /\ out = << >>
    /\ SyncOff

\* What a walk has come to: who made it and whether it has ended.
Walked(by, walk) ==
    /\ out = << >>
    /\ out' = << [by |-> by, done |-> walk.done] >>

\* downloadFile(file) for a file of the listing: readFATFile
WalkDownload ==
    LET geo == parseFATGeometry(img)
        files == parseFATDir(img, geo)
    IN \E k \in 1 .. Len(files) :
           /\ Walked("readFATFile",
                     ReadFileRun(img, geo, files[k].size,
                                 [cluster |-> files[k].firstCluster, written |-> 0,
                                  b |-> << >>, done |-> FALSE],
                                 ReadFileBound(geo, files[k].size) + 1))
           /\ UNCHANGED << img, prev, log, syncVars >>

\* readTranscriptFromDisk for an entry with a cluster: readFATFileByChain
WalkTranscript ==
    LET geo == parseFATGeometry(img)
        files == parseFATDir(img, geo)
    IN \E k \in 1 .. Len(files) :
           /\ files[k].firstCluster >= 2
           /\ Walked("readFATFileByChain",
                     ByChainRun(img, geo,
                                [cluster |-> files[k].firstCluster, safety |-> SAFETY,
                                 chunks |-> << >>, pos |-> 0, done |-> FALSE],
                                ByChainBound + 1))
           /\ UNCHANGED << img, prev, log, syncVars >>

\* extractFilesFromImage: the walk from the first cluster of a live entry
WalkExtract ==
    LET geo == parseGeometry(img)
    IN \E i \in 0 .. (geo.rootDirEntries - 1) :
           /\ ~SlotUnused(img, geo, i)
           /\ U16(img, geo.rootDirStart + 32 * i + 26) >= 2
           /\ Walked("extractFilesFromImage",
                     ChainRun(img, geo,
                              [cluster |-> U16(img, geo.rootDirStart + 32 * i + 26),
                               clusters |-> << >>, done |-> FALSE],
                              ChainBound(geo) + 1))
           /\ UNCHANGED << img, prev, log, syncVars >>

\* A writer given the name of the entry on the disk and data the free clusters
\* hold: the data and its chain, the release of the old chain, and, if the
\* release has ended, the stray store of the server and the entry.
WalkOverwrite(by, data) ==
    LET geo == parseGeometry(img)
        name11 == Name83(TranscriptName)
        needed == ClustersNeeded(geo, data)
        freeClusters == FindFreeClusters(img, geo, needed)
        chained == WriteClusters(img, geo, data, freeClusters)
        existing == FindExisting(chained, geo, name11)
        walk == FreeOldRun(geo, [oldC |-> U16(chained, existing + 26), img |-> chained,
                                 done |-> FALSE],
                           FreeOldBound(geo) + 1)
    IN /\ Len(freeClusters) >= needed
       /\ existing # -1
       /\ Walked(by, walk)
       /\ img' = IF walk.done
                 THEN WriteReleased(walk, geo, existing, name11, freeClusters[1], data.len,
                                    by = "writeFileToImage").img
                 ELSE walk.img
       /\ prev' = img
       /\ UNCHANGED << log, syncVars >>

NextWalk ==
    \/ WalkDownload
    \/ WalkTranscript
    \/ WalkExtract
    \/ \E by \in {"writeFileToImage", "writeFATFile"}, data \in {EmptyData, [len |-> 3, b |-> (0 :> 7 @@ 2 :> 9)]} :
           WalkOverwrite(by, data)

SpecWalk == InitWalk /\ [][NextWalk]_vars

(* ------------------------------------------------------------------ *)
(* Root directories with slots of every kind                          *)
(* ------------------------------------------------------------------ *)

\* Root-directory slots of the volume whose directory is listed.
DirSlots == 4

\* What a slot holds: nothing (the end of the directory), a deleted entry, a
\* long-name fragment, a volume label (hidden as well: attribute 0x0A), a
\* file, a subdirectory.
DirKinds == {"end", "deleted", "long name", "label", "file", "directory"}

\* The attribute byte of a slot of that kind.
DirAttr(kind) ==
    CASE kind = "long name" -> 15
      [] kind = "label" -> 10
      [] kind = "directory" -> 16
      [] OTHER -> 32

\* The bytes of slot s: the entry of A.T, B, C.T, D, ... with first cluster
\* 2 + s and a size whose four bytes are all used.
DirSlotBytes(off, s, kind) ==
    IF kind = "end" THEN << >>
    ELSE (IF kind = "deleted" THEN (off :> 229) ELSE << >>)
         @@ (off + 11 :> DirAttr(kind))
         @@ DirEntryBytes(off, Name83(IF s % 2 = 0 THEN << 65 + s, 46, 84 >> ELSE << 65 + s >>),
                          2 + s, 16909060 + s)

RECURSIVE DirDisk(_, _)
\* The small volume with DirSlots root entries, slot s holding kinds[s + 1].
DirDisk(kinds, s) ==
    IF s = 0 THEN Normal(Poke(SmallVolume, At(17, UInt16LE(DirSlots))))
    ELSE LET disk == DirDisk(kinds, s - 1)
         IN Normal(Poke(disk, DirSlotBytes(parseGeometry(disk).rootDirStart + 32 * (s - 1),
                                           s - 1, kinds[s])))

InitDir ==
    /\ \E kinds \in [1 .. DirSlots -> DirKinds] : img = DirDisk(kinds, DirSlots)
    /\ prev = img
    /\ log = << >>
    /\ out = << >>
    /\ SyncOff

\* The browser lists the root directory of the disk.
BrowserList ==
    /\ out = << >>
    /\ out' = << [by |-> "parseFATDir", files |-> parseFATDir(img, parseFATGeometry(img))] >>
    /\ UNCHANGED << img, prev, log, syncVars >>

NextDir == BrowserList

SpecDir == InitDir /\ [][NextDir]_vars

(* ------------------------------------------------------------------ *)
(* Fingerprints of a disk the guest writes to                         *)
(* ------------------------------------------------------------------ *)

\* Fingerprints taken per run.
MaxPrints == 2

\* Bytes the guest writes per run.
MaxPokes == 2

\* Where the guest writes a byte: the root-entry count of the boot sector,
\* the first and last byte of FAT #1, the first byte of FAT #2, the first and
\* last byte of the root-directory entries, the byte after them, the first
\* and the last byte of the data area.
PrintOffsets ==
    LET geo == parseGeometry(SmallVolume)
    IN {17, geo.fatStart, geo.fatStart + geo.sectorsPerFAT * geo.bytesPerSector - 1,
        geo.fat2Start, geo.rootDirStart, geo.rootDirStart + geo.rootDirEntries * 32 - 1,
        geo.rootDirStart + geo.rootDirEntries * 32, geo.dataStart, SmallVolume.len - 1}

\* The values written.
PrintBytes == {0, 1, 255}

InitPrint ==
    /\ img \in {SmallVolume, GuestDisk((2 :> 4095), 3)}
    /\ prev = img
    /\ log = << >>
    /\ out = << >>
    /\ SyncOff

\* The guest writes one byte of its disk.
GuestPoke(o, v) ==
    /\ Len(log) < MaxPokes
    /\ img' = Normal(Poke(img, (o :> v)))
    /\ log' = Append(log, [by |-> "guest", offset |-> o, byte |-> v])
    /\ UNCHANGED << prev, out, syncVars >>

\* diskFingerprint() is called: the hash of the disk as it is now.
TakeFingerprint ==
    /\ Len(out) < MaxPrints
    /\ out' = Append(out, [by |-> "diskFingerprint", disk |-> img, fp |-> diskFingerprint(img)])
    /\ UNCHANGED << img, prev, log, syncVars >>

NextPrint ==
    \/ \E o \in PrintOffsets, v \in PrintBytes : GuestPoke(o, v)
    \/ TakeFingerprint

SpecPrint == InitPrint /\ [][NextPrint]_vars

(* ------------------------------------------------------------------ *)
(* Blank images of every size the server makes                        *)
(* ------------------------------------------------------------------ *)

InitSizes ==
    /\ img = ZeroImage(0)
    /\ prev = ZeroImage(0)
    /\ log = << >>
    /\ out = << >>
    /\ SyncOff

\* The response of GET /api/workspace/disk.img: the image, or status 500 if
\* the build has raised.
DiskImgSent(sizeMB, entries, built) ==
    /\ img' = IF built.ok THEN built.img ELSE img
    /\ out' = << [by |-> "disk.img", sizeMB |-> sizeMB, entries |-> entries,
                  status |-> IF built.ok THEN 200 ELSE 500] >>

\* GET /api/workspace/disk.img?size=sizeMB with the workspace directory as
\* it is: the image is built and sent.
GetDiskImg(sizeMB) ==
    /\ out = << >>
    /\ \E entries \in Listings(DOMAIN host) :
           DiskImgSent(sizeMB, entries,
                       buildImageFromDirectory(host, entries, sizeMB, VolumeSerial))
    /\ UNCHANGED << prev, log, syncVars >>

NextSizes == \E sizeMB \in MinSizeMB .. MaxSizeMB : GetDiskImg(sizeMB)

SpecSizes == InitSizes /\ [][NextSizes]_vars

(* ------------------------------------------------------------------ *)
(* Images built from a directory with files that do not fit           *)
(* ------------------------------------------------------------------ *)

\* "a.txt", "GAME.DAT", "c"
BuildNames == { << 97, 46, 116, 120, 116 >>, << 71, 65, 77, 69, 46, 68, 65, 84 >>, << 99 >> }

\* Bytes of the file that is larger than the image of MinSizeMB: 5 MiB.
TooLarge == 5242880

\* What the files hold: three bytes, two bytes, more than the image has room
\* for, more than 16 MiB.
BuildData ==
    { [len |-> 3, b |-> (0 :> 7 @@ 2 :> 9)], [len |-> 2, b |-> (0 :> 5 @@ 1 :> 6)],
      [len |-> TooLarge, b |-> (0 :> 1)], [len |-> SKIP_ABOVE + 1, b |-> (0 :> 1)] }

InitBuild ==
    /\ img = ZeroImage(0)
    /\ prev = ZeroImage(0)
    /\ log = << >>
    /\ out = << >>
    /\ \E data \in [BuildNames -> BuildData] :
           SyncOffOn([n \in BuildNames |-> [data |-> data[n], mtime |-> 0]])

NextBuild == GetDiskImg(MinSizeMB)

SpecBuild == InitBuild /\ [][NextBuild]_vars

(* ------------------------------------------------------------------ *)
(* The two geometry parsers on buffers of any content                 *)
(* ------------------------------------------------------------------ *)

\* Values of the bytes-per-sector field: 0, below and at the least that is
\* accepted, 512, 1024, at and above the most that is accepted.
GeoSectorBytes == {0, 127, 128, 512, 1024, 4096, 4097}

\* Values of the fields sectors per cluster, number of FATs and sectors per
\* FAT, in this order.
GeoCounts == {0, 1} \X {0, 2} \X {0, 1}

\* Where the boot sector is: at the start of a buffer of 512 bytes without
\* partition table; in the partition that entry 0 of the table gives, at LBA
\* 1 of a buffer of 2048 bytes; and the same table with LBA 16, past the end.
GeoPlaces == {0, 1, 16}

\* The buffer with these fields: 1 reserved sector, 16 root entries, 16
\* sectors.  Fields that are 0 leave the buffer as it is; with bytes per
\* sector 0 and all counts 0 the buffer of 512 bytes is all zero.
GeoBuffer(bytesPerSector, counts, lba) ==
    LET bpb == lba * 512
        fields == At(bpb + 11, UInt16LE(bytesPerSector)) @@ At(bpb + 13, << counts[1] >>)
                  @@ At(bpb + 14, UInt16LE(1)) @@ At(bpb + 16, << counts[2] >>)
                  @@ At(bpb + 17, UInt16LE(16)) @@ At(bpb + 19, UInt16LE(16))
                  @@ At(bpb + 22, UInt16LE(counts[3]))
        table == At(510, << 85, 170 >>) @@ At(446 + 4, << 6 >>) @@ At(446 + 8, UInt32LE(lba))
    IN IF lba = 0
       THEN Normal(Poke(ZeroImage(512),
                        IF bytesPerSector = 0 /\ counts = << 0, 0, 0 >>
                        THEN << >> ELSE fields))
       ELSE Normal(Poke(ZeroImage(2048), table @@ fields))

InitGeo ==
    /\ \E bytesPerSector \in GeoSectorBytes, counts \in GeoCounts, lba \in GeoPlaces :
           img = GeoBuffer(bytesPerSector, counts, lba)
    /\ prev = img
    /\ log = << >>
    /\ out = << >>
    /\ SyncOff

\* The server parses the buffer.
ServerParse ==
    /\ out = << >>
    /\ out' = << [by |-> "parseGeometry", geo |-> parseGeometry(img)] >>
    /\ UNCHANGED << img, prev, log, syncVars >>

\* The browser parses the buffer.
BrowserParse ==
    /\ out = << >>
    /\ out' = << [by |-> "parseFATGeometry", geo |-> parseFATGeometry(img)] >>
    /\ UNCHANGED << img, prev, log, syncVars >>

NextGeo == ServerParse \/ BrowserParse

SpecGeo == InitGeo /\ [][NextGeo]_vars

(* ------------------------------------------------------------------ *)
(* Live sync: the coordinator in the browser, the routes of the       *)
(* server, the host user and the user of the page.                    *)
(* ------------------------------------------------------------------ *)

\* Writes of the host user per run.
MaxClock == 1

\* Calls of pollServerChanges in flight at a time.
MaxPolls == 1

\* The file the host user edits: "notes.txt"
HostNames == { << 110, 111, 116, 101, 115, 46, 116, 120, 116 >> }

\* What the host user writes: three bytes, and a file of more than 16 MiB.
HostData == { [len |-> 3, b |-> (0 :> 7 @@ 2 :> 9)], [len |-> SKIP_ABOVE + 1, b |-> (0 :> 1)] }

\* The file the user of the page puts on the disk: "A$.TXT"
UploadNames == { << 65, 36, 46, 84, 88, 84 >> }

UploadData == { [len |-> 2, b |-> (0 :> 5 @@ 1 :> 6)] }

\* Date.now() & 0xFFFFFFFF with bit 31 clear, and with bit 31 set.
Nows == { VolumeSerial, VolumeSerial - 2147483647 - 1 }

\* Live sync has just been started on the disk the page booted with, built
\* from the empty workspace: startLiveSync has taken the fingerprint, set the
\* two intervals and the timeout of the first push.
InitSync ==
    /\ img = BlankImage
    /\ prev = BlankImage
    /\ log = << >>
    /\ out = << >>
    /\ host = << >>
    /\ lastKnownFileState = snapshotFileState(<< >>)
    /\ clock = 0
    /\ wsSyncTimer = TRUE
    /\ wsPollTimer = TRUE
    /\ wsCommandSyncTimer = 0
    /\ commandTimeouts = << >>
    /\ workspaceToggle = TRUE
    /\ initialPush = TRUE
    /\ wsSyncing = FALSE
    /\ wsLastFingerprint = diskFingerprint(BlankImage)
    /\ push = NoPush
    /\ polls = << >>
    /\ hostOps = {}
    /\ guestWrote = {}
    /\ change = "none"
    /\ TextCapOff

\* pushDiskToServer up to its fetch: nothing if the guard is set; else the
\* guard is set and the bytes of the disk are sent.
pushDiskToServer ==
    IF wsSyncing THEN UNCHANGED << wsSyncing, push >>
    ELSE /\ wsSyncing' = TRUE
         /\ push' = [phase |-> "request", image |-> img, ok |-> FALSE]

\* setTimeout(() => pushDiskToServer(), 1500) of startLiveSync fires.
InitialPush ==
    /\ initialPush
    /\ initialPush' = FALSE
    /\ pushDiskToServer
    /\ UNCHANGED << img, writerVars, host, lastKnownFileState, clock, wsSyncTimer, wsPollTimer,
                    wsCommandSyncTimer, commandTimeouts, workspaceToggle, wsLastFingerprint,
                    polls, hostOps, guestWrote, change >>

\* syncTick
SyncTick ==
    /\ wsSyncTimer
    /\ ~wsSyncing
    /\ LET fp == diskFingerprint(img)
       IN fp.ok /\ fp # wsLastFingerprint
    /\ pushDiskToServer
    /\ UNCHANGED << img, writerVars, host, lastKnownFileState, clock, wsSyncTimer, wsPollTimer,
                    wsCommandSyncTimer, commandTimeouts, workspaceToggle, initialPush,
                    wsLastFingerprint, polls, hostOps, guestWrote, change >>

\* setTimeout(..., 2000) of schedulePostCommandSync, in units of a second.
CommandDelay == 2

\* Post-command timeouts pending at a time, at most.
MaxTimeouts == 2

\* clearTimeout(handle): the timeout of the handle is pending no more.
clearTimeout(pending, handle) == Without(pending, {handle})

\* schedulePostCommandSync past its first line, without the clearTimeout: a
\* timeout is set whatever is pending.
ScheduleNoClear(pending, handle) ==
    LET id == Least((1 .. (MaxTimeouts + 1)) \ DOMAIN pending)
    IN [pending |-> (id :> CommandDelay) @@ pending, handle |-> id]

\* schedulePostCommandSync past its first line:
\*     if (wsCommandSyncTimer) clearTimeout(wsCommandSyncTimer);
\*     wsCommandSyncTimer = setTimeout(..., 2000)
\* setTimeout returns a handle that is not in use.
Schedule(pending, handle) ==
    LET kept == IF handle # 0 THEN clearTimeout(pending, handle) ELSE pending
        id == Least((1 .. (MaxTimeouts + 1)) \ DOMAIN kept)
    IN [pending |-> (id :> CommandDelay) @@ kept, handle |-> id]

\* The timeouts and the handle as schedulePostCommandSync leaves them.
Scheduled(next) ==
    /\ Cardinality(DOMAIN next.pending) <= MaxTimeouts
    /\ commandTimeouts' = next.pending
    /\ wsCommandSyncTimer' = next.handle

\* A command is sent to the guest: sendCommand calls schedulePostCommandSync,
\* which does nothing unless the workspace checkbox is checked.
Command ==
    /\ workspaceToggle
    /\ Scheduled(Schedule(commandTimeouts, wsCommandSyncTimer))
    /\ UNCHANGED << img, writerVars, host, lastKnownFileState, clock, wsSyncTimer, wsPollTimer,
                    workspaceToggle, initialPush, wsSyncing, wsLastFingerprint, push, polls,
                    hostOps, guestWrote, change >>

\* A second passes while a post-command timeout is pending and none is due.
Tick ==
    /\ commandTimeouts # << >>
    /\ \A id \in DOMAIN commandTimeouts : commandTimeouts[id] > 0
    /\ commandTimeouts' = [id \in DOMAIN commandTimeouts |-> commandTimeouts[id] - 1]
    /\ UNCHANGED << img, writerVars, host, lastKnownFileState, clock, wsSyncTimer, wsPollTimer,
                    wsCommandSyncTimer, workspaceToggle, initialPush, wsSyncing,
                    wsLastFingerprint, push, polls, hostOps, guestWrote, change >>

\* The timeout of schedulePostCommandSync fires:
\*     wsCommandSyncTimer = null; pushDiskToServer()
CommandSyncFire ==
    /\ \E id \in DOMAIN commandTimeouts :
           /\ commandTimeouts[id] = 0
           /\ commandTimeouts' = Without(commandTimeouts, {id})
    /\ wsCommandSyncTimer' = 0
    /\ pushDiskToServer
    /\ UNCHANGED << img, writerVars, host, lastKnownFileState, clock, wsSyncTimer, wsPollTimer,
                    workspaceToggle, initialPush, wsLastFingerprint, polls, hostOps, guestWrote,
                    change >>

\* The workspace checkbox is unchecked: updateWorkspaceUI calls stopLiveSync,
\* which clears the two intervals and the post-command timeout.  The timeout
\* of the first push has no handle and stays.
stopLiveSync ==
    /\ workspaceToggle
    /\ workspaceToggle' = FALSE
    /\ wsSyncTimer' = FALSE
    /\ wsPollTimer' = FALSE
    /\ commandTimeouts' = IF wsCommandSyncTimer # 0
                          THEN clearTimeout(commandTimeouts, wsCommandSyncTimer)
                          ELSE commandTimeouts
    /\ wsCommandSyncTimer' = 0
    /\ UNCHANGED << img, writerVars, host, lastKnownFileState, clock, initialPush, wsSyncing,
                    wsLastFingerprint, push, polls, hostOps, guestWrote, change >>

\* syncDiskToWorkspace: the sync button.
ManualSync ==
    /\ ~wsSyncing
    /\ pushDiskToServer
    /\ UNCHANGED << img, writerVars, host, lastKnownFileState, clock, wsSyncTimer, wsPollTimer,
                    wsCommandSyncTimer, commandTimeouts, workspaceToggle, initialPush,
                    wsLastFingerprint, polls, hostOps, guestWrote, change >>

\* What POST /api/workspace/live-sync leaves on the host.
LiveSyncDone(done) ==
    /\ host' = done.files
    /\ lastKnownFileState' = snapshotFileState(done.files)
    /\ hostOps' = hostOps
           \cup {[op |-> IF n \in DOMAIN host THEN "overwrite" ELSE "create", name |-> n] :
                     n \in done.written}
           \cup {[op |-> "unlink", name |-> n] : n \in done.removed \cap DOMAIN host}

\* POST /api/workspace/live-sync handles the request of the push.
LiveSync ==
    /\ push.phase = "request"
    /\ LiveSyncDone(LiveSyncFiles(host, push.image, clock))
    /\ push' = [push EXCEPT !.phase = "response", !.ok = TRUE]
    /\ change' = "none"
    /\ UNCHANGED << img, writerVars, clock, wsSyncTimer, wsPollTimer, wsCommandSyncTimer,
                    commandTimeouts, workspaceToggle, initialPush, wsSyncing, wsLastFingerprint,
                    polls, guestWrote >>

\* pushDiskToServer after its fetch: the fingerprint of the disk as it is now
\* is stored, the guard is cleared.
PushDone ==
    /\ push.phase = "response"
    /\ wsLastFingerprint' = IF push.ok THEN diskFingerprint(img) ELSE wsLastFingerprint
    /\ wsSyncing' = FALSE
    /\ push' = NoPush
    /\ UNCHANGED << img, writerVars, host, lastKnownFileState, clock, wsSyncTimer, wsPollTimer,
                    wsCommandSyncTimer, commandTimeouts, workspaceToggle, initialPush, polls,
                    hostOps, guestWrote, change >>

\* A failed push without the finally clause: the guard stays set.
PushFailKeepsGuard ==
    /\ push.phase # "idle"
    /\ push' = NoPush
    /\ UNCHANGED << img, writerVars, host, lastKnownFileState, clock, wsSyncTimer, wsPollTimer,
                    wsCommandSyncTimer, commandTimeouts, workspaceToggle, initialPush,
                    wsSyncing, wsLastFingerprint, polls, hostOps, guestWrote, change >>

\* The fetch of the push is rejected (the request or the response is lost):
\* catch and finally.
PushFail ==
    /\ push.phase # "idle"
    /\ wsSyncing' = FALSE
    /\ push' = NoPush
    /\ UNCHANGED << img, writerVars, host, lastKnownFileState, clock, wsSyncTimer, wsPollTimer,
                    wsCommandSyncTimer, commandTimeouts, workspaceToggle, initialPush,
                    wsLastFingerprint, polls, hostOps, guestWrote, change >>

\* A poll at the given step.
Poll(phase, hasChanges, ok, image) ==
    [phase |-> phase, hasChanges |-> hasChanges, ok |-> ok, image |-> image]

\* polls without the k-th.
Ended(k) == SubSeq(polls, 1, k - 1) \o SubSeq(polls, k + 1, Len(polls))

\* pollServerChanges up to its first fetch.
PollTick ==
    /\ wsPollTimer
    /\ ~wsSyncing
    /\ Len(polls) < MaxPolls
    /\ polls' = Append(polls, Poll("changes", FALSE, FALSE, ZeroImage(0)))
    /\ UNCHANGED << img, writerVars, host, lastKnownFileState, clock, wsSyncTimer, wsPollTimer,
                    wsCommandSyncTimer, commandTimeouts, workspaceToggle, initialPush,
                    wsSyncing, wsLastFingerprint, push, hostOps, guestWrote, change >>

\* The response of GET /api/workspace/changes: hasChanges and changes.
ChangesResponse(changes) ==
    Poll("changesResponse", changes # {}, TRUE, ZeroImage(0)) @@ [changes |-> changes]

\* A change route that takes what it has reported as the new snapshot.
ChangesRebaselines(k) ==
    /\ polls[k].phase = "changes"
    /\ polls' = [polls EXCEPT ![k] = ChangesResponse(ChangesSince(lastKnownFileState, host))]
    /\ change' = IF ChangesSince(lastKnownFileState, host) # {} THEN "reported" ELSE change
    /\ lastKnownFileState' = snapshotFileState(host)
    /\ UNCHANGED << img, writerVars, host, clock, wsSyncTimer, wsPollTimer,
                    wsCommandSyncTimer, commandTimeouts, workspaceToggle, initialPush,
                    wsSyncing, wsLastFingerprint, push, hostOps, guestWrote >>

\* GET /api/workspace/changes handles the request of poll k.
Changes(k) ==
    /\ polls[k].phase = "changes"
    /\ polls' = [polls EXCEPT ![k] = ChangesResponse(ChangesSince(lastKnownFileState, host))]
    /\ change' = IF ChangesSince(lastKnownFileState, host) # {} THEN "reported" ELSE change
    /\ UNCHANGED << img, writerVars, host, lastKnownFileState, clock, wsSyncTimer, wsPollTimer,
                    wsCommandSyncTimer, commandTimeouts, workspaceToggle, initialPush,
                    wsSyncing, wsLastFingerprint, push, hostOps, guestWrote >>

\* pollServerChanges after its first fetch: done if there are no changes,
\* else the pull is requested.
PollChangesDone(k) ==
    /\ polls[k].phase = "changesResponse"
    /\ polls' = IF polls[k].hasChanges
                THEN [polls EXCEPT ![k] = Poll("pull", TRUE, FALSE, ZeroImage(0))]
                ELSE Ended(k)
    /\ UNCHANGED << img, writerVars, host, lastKnownFileState, clock, wsSyncTimer, wsPollTimer,
                    wsCommandSyncTimer, commandTimeouts, workspaceToggle, initialPush,
                    wsSyncing, wsLastFingerprint, push, hostOps, guestWrote, change >>

\* The response of POST /api/workspace/pull: the image, or status 500.
PullBuilt(k, built) ==
    polls' = [polls EXCEPT ![k] = Poll("pullResponse", TRUE, built.ok, built.img)]

\* A pull route that builds the image and leaves the snapshot as it was.
PullKeepsBaseline(k) ==
    /\ polls[k].phase = "pull"
    /\ \E now32 \in Nows, entries \in Listings(DOMAIN host) :
           PullBuilt(k, buildImageFromDirectory(host, entries, DefaultSizeMB, now32))
    /\ UNCHANGED << img, writerVars, host, lastKnownFileState, clock, wsSyncTimer, wsPollTimer,
                    wsCommandSyncTimer, commandTimeouts, workspaceToggle, initialPush,
                    wsSyncing, wsLastFingerprint, push, hostOps, guestWrote, change >>

\* POST /api/workspace/pull handles the request of poll k: the snapshot is
\* taken, then the image is built; an exception is answered with status 500.
Pull(k) ==
    /\ polls[k].phase = "pull"
    /\ lastKnownFileState' = snapshotFileState(host)
    /\ \E now32 \in Nows, entries \in Listings(DOMAIN host) :
           PullBuilt(k, buildImageFromDirectory(host, entries, DefaultSizeMB, now32))
    /\ UNCHANGED << img, writerVars, host, clock, wsSyncTimer, wsPollTimer, wsCommandSyncTimer,
                    commandTimeouts, workspaceToggle, initialPush, wsSyncing, wsLastFingerprint,
                    push, hostOps, guestWrote, change >>

\* pollServerChanges after its second fetch: done if the response is not
\* ok; else replaceDiskImage, which returns false when the emulator has no
\* drive or buffer to take the image, and the fingerprint if it returned true.
PollPullDone(k) ==
    /\ polls[k].phase = "pullResponse"
    /\ polls' = Ended(k)
    /\ \E replaced \in BOOLEAN :
           IF polls[k].ok /\ replaced
           THEN /\ img' = polls[k].image
                /\ wsLastFingerprint' = diskFingerprint(polls[k].image)
                /\ change' = "none"
           ELSE /\ change' = IF change = "reported" THEN "lost" ELSE change
                /\ UNCHANGED << img, wsLastFingerprint >>
    /\ UNCHANGED << writerVars, host, lastKnownFileState, clock, wsSyncTimer, wsPollTimer,
                    wsCommandSyncTimer, commandTimeouts, workspaceToggle, initialPush,
                    wsSyncing, push, hostOps, guestWrote >>

\* A fetch of poll k is rejected: the catch of pollServerChanges.
PollFail(k) ==
    /\ polls[k].phase \in {"changes", "changesResponse", "pull", "pullResponse"}
    /\ polls' = Ended(k)
    /\ change' = IF polls[k].phase = "pullResponse" /\ change = "reported" THEN "lost" ELSE change
    /\ UNCHANGED << img, writerVars, host, lastKnownFileState, clock, wsSyncTimer, wsPollTimer,
                    wsCommandSyncTimer, commandTimeouts, workspaceToggle, initialPush,
                    wsSyncing, wsLastFingerprint, push, hostOps, guestWrote >>

\* The host user writes a file of the workspace directory.
HostWrite(name, data) ==
    /\ clock < MaxClock
    /\ clock' = clock + 1
    /\ host' = (name :> [data |-> data, mtime |-> clock + 1]) @@ host
    /\ change' = "none"
    /\ UNCHANGED << img, writerVars, lastKnownFileState, wsSyncTimer, wsPollTimer,
                    wsCommandSyncTimer, commandTimeouts, workspaceToggle, initialPush,
                    wsSyncing, wsLastFingerprint, push, polls, hostOps, guestWrote >>

\* The host user removes a file of the workspace directory.
HostDelete(name) ==
    /\ name \in DOMAIN host
    /\ host' = Without(host, {name})
    /\ change' = "none"
    /\ UNCHANGED << img, writerVars, lastKnownFileState, clock, wsSyncTimer, wsPollTimer,
                    wsCommandSyncTimer, commandTimeouts, workspaceToggle, initialPush,
                    wsSyncing, wsLastFingerprint, push, polls, hostOps, guestWrote >>

\* finishUpload: the copy is handed to replaceDiskImage whatever the writer
\* returned.
finishUpload(name, result) ==
    \E replaced \in BOOLEAN :
        /\ img' = IF replaced THEN result.img ELSE img
        /\ guestWrote' = IF replaced /\ result.ok
                         THEN guestWrote \cup {NameOnDisk(name)} ELSE guestWrote

\* uploadFiles with one file: the file is written into a copy of the disk.
GuestUpload(name, data) ==
    /\ parseFATGeometry(img).ok
    /\ NameOnDisk(name) \notin guestWrote
    /\ finishUpload(name, writeFATFile(img, parseFATGeometry(img), name, data))
    /\ UNCHANGED << writerVars, host, lastKnownFileState, clock, wsSyncTimer, wsPollTimer,
                    wsCommandSyncTimer, commandTimeouts, workspaceToggle, initialPush,
                    wsSyncing, wsLastFingerprint, push, polls, hostOps, change >>

NextSync ==
    \/ InitialPush
    \/ SyncTick
    \/ Command
    \/ Tick
    \/ CommandSyncFire
    \/ stopLiveSync
    \/ ManualSync
    \/ LiveSync
    \/ PushDone
    \/ PushFail
    \/ PollTick
    \/ \E k \in 1 .. Len(polls) : Changes(k)
    \/ \E k \in 1 .. Len(polls) : PollChangesDone(k)
    \/ \E k \in 1 .. Len(polls) : Pull(k)
    \/ \E k \in 1 .. Len(polls) : PollPullDone(k)
    \/ \E k \in 1 .. Len(polls) : PollFail(k)
    \/ \E name \in HostNames, data \in HostData : HostWrite(name, data)
    \/ \E name \in HostNames : HostDelete(name)
    \/ \E name \in UploadNames, data \in UploadData : GuestUpload(name, data)

SpecSync == InitSync /\ [][NextSync]_vars

(* ------------------------------------------------------------------ *)
(* Live sync left to itself: no request fails, the sync is not        *)
(* stopped, no command is typed; the timers keep firing, the server   *)
(* answers every request and every response is handled.               *)
(* ------------------------------------------------------------------ *)

\* No request fails in the step: a pull that is answered is answered with the
\* image, and replaceDiskImage takes the image of a pull whose response is
\* handled.
NoFailure ==
    /\ \A k \in 1 .. Len(polls') : polls'[k].phase = "pullResponse" => polls'[k].ok
    /\ \A k \in 1 .. Len(polls) :
           (polls[k].phase = "pullResponse" /\ polls' = Ended(k)) => img' = polls[k].image

\* The steps of a push: setInterval(syncTick, 3000), the timeout of the first
\* push, the route, the continuation of the fetch.
PushSteps == InitialPush \/ SyncTick \/ LiveSync \/ PushDone

\* The steps of a poll: setInterval(pollServerChanges, 5000), the two routes,
\* the continuations of the two fetches.
PollSteps ==
    \/ PollTick
    \/ \E k \in 1 .. Len(polls) : Changes(k)
    \/ \E k \in 1 .. Len(polls) : PollChangesDone(k)
    \/ \E k \in 1 .. Len(polls) : Pull(k)
    \/ \E k \in 1 .. Len(polls) : PollPullDone(k)

\* What the users do: the host user writes and removes files, the user of
\* the page puts a file on the disk.
UserSteps ==
    \/ \E name \in HostNames, data \in HostData : HostWrite(name, data)
    \/ \E name \in HostNames : HostDelete(name)
    \/ \E name \in UploadNames, data \in UploadData : GuestUpload(name, data)

\* The steps of a poll in which no request fails.
QuietPollSteps == PollSteps /\ NoFailure

NextConverge == PushSteps \/ QuietPollSteps \/ UserSteps

\* syncTick has a push to start.
SyncTickEnabled ==
    /\ wsSyncTimer
    /\ ~wsSyncing
    /\ diskFingerprint(img).ok
    /\ diskFingerprint(img) # wsLastFingerprint

\* A poll is in flight, or pollServerChanges can start one.
PollEnabled == polls # << >> \/ (wsPollTimer /\ ~wsSyncing)

\* The intervals fire again and again, the server answers, the browser runs
\* the continuations: no step of a push or of a poll is put off forever.
\* The last four conjuncts are WF_vars(LiveSync), WF_vars(SyncTick),
\* WF_vars(PushDone) and WF_vars(QuietPollSteps) with the guards of
\* the actions written out.
SpecConverge ==
    /\ InitSync
    /\ [][NextConverge]_vars
    /\ WF_vars(InitialPush)
    /\ ([]<>(push.phase # "request") \/ []<><<LiveSync>>_vars)
    /\ ([]<>(~SyncTickEnabled) \/ []<><<SyncTick>>_vars)
    /\ ([]<>(push.phase # "response") \/ []<><<PushDone>>_vars)
    /\ ([]<>(~PollEnabled) \/ []<><<QuietPollSteps>>_vars)

(* ------------------------------------------------------------------ *)
(* The guard of the push, with every fetch settled in the end         *)
(* ------------------------------------------------------------------ *)

\* Pushes that find no disk, per run.
MaxNoDisk == 1

\* A push that finds no disk and returns without the finally clause: the guard
\* stays set.
PushNoDiskKeepsGuard ==
    /\ ~wsSyncing
    /\ Len(log) < MaxNoDisk
    /\ log' = Append(log, [by |-> "pushDiskToServer", disk |-> FALSE])
    /\ wsSyncing' = TRUE
    /\ UNCHANGED << img, prev, out, host, lastKnownFileState, clock, wsSyncTimer, wsPollTimer,
                    wsCommandSyncTimer, commandTimeouts, workspaceToggle, initialPush,
                    wsLastFingerprint, push, polls, hostOps, guestWrote, change,
                    textCapVars >>

\* The sync button while getDiskBytes() returns null (the device of the
\* emulator has no buffer): pushDiskToServer sets the guard, returns from the
\* try block at "if (!diskBytes) return", and finally clears the guard.
PushNoDisk ==
    /\ ~wsSyncing
    /\ Len(log) < MaxNoDisk
    /\ log' = Append(log, [by |-> "pushDiskToServer", disk |-> FALSE])
    /\ wsSyncing' = FALSE
    /\ UNCHANGED << img, prev, out, host, lastKnownFileState, clock, wsSyncTimer, wsPollTimer,
                    wsCommandSyncTimer, commandTimeouts, workspaceToggle, initialPush,
                    wsLastFingerprint, push, polls, hostOps, guestWrote, change,
                    textCapVars >>

NextGuard ==
    \/ InitialPush
    \/ SyncTick
    \/ Command
    \/ Tick
    \/ CommandSyncFire
    \/ ManualSync
    \/ PushNoDisk
    \/ LiveSync
    \/ PushDone
    \/ PushFail
    \/ \E name \in UploadNames, data \in UploadData : GuestUpload(name, data)

\* The promise of fetch settles: a request that gets no answer is rejected by
\* the browser in the end, so a push in flight does not stay in flight.
SpecGuard == InitSync /\ [][NextGuard]_vars /\ WF_vars(PushFail)

(* ------------------------------------------------------------------ *)
(* The serial port: bytes of the guest, one call of the listener each *)
(* ------------------------------------------------------------------ *)

\* TextCap as the variables hold it.
TextCap ==
    [textCapActive |-> textCapActive, textCapBuffer |-> textCapBuffer,
     textCapCurRow |-> textCapCurRow, textCapCurCol |-> textCapCurCol,
     textCapDirty |-> textCapDirty, textCapParseState |-> textCapParseState,
     textCapCsiParams |-> textCapCsiParams, textCapMarkerPos |-> textCapMarkerPos,
     serialBuffer |-> serialBuffer, raised |-> FALSE]

\* TextCap after the step holds the state st.
TextCapBecomes(st) ==
    /\ textCapActive' = st.textCapActive
    /\ textCapBuffer' = st.textCapBuffer
    /\ textCapCurRow' = st.textCapCurRow
    /\ textCapCurCol' = st.textCapCurCol
    /\ textCapDirty' = st.textCapDirty
    /\ textCapParseState' = st.textCapParseState
    /\ textCapCsiParams' = st.textCapCsiParams
    /\ textCapMarkerPos' = st.textCapMarkerPos
    /\ serialBuffer' = st.serialBuffer

\* The guest sends a byte, one of at most `most`: "serial0-output-byte".
SerialByte(byte, most) ==
    /\ Len(serial) < most
    /\ serial' = Append(serial, byte)
    /\ TextCapBecomes(SerialListener(TextCap, byte))
    /\ UNCHANGED << img, diskVars, liveVars >>

\* Bytes sent while the marker is awaited, per run.
MaxMarkerBytes == 6

\* The bytes of the marker, ESC [ T C ], and the letter A.
MarkerBytes == {27, 91, 84, 67, 93, 65}

InitMarker ==
    /\ img = ZeroImage(0)
    /\ prev = ZeroImage(0)
    /\ log = << >>
    /\ out = << >>
    /\ SyncOff

NextMarker == \E byte \in MarkerBytes : SerialByte(byte, MaxMarkerBytes)

SpecMarker == InitMarker /\ [][NextMarker]_vars

\* Bytes sent to the parser, per run.
MaxParseBytes == 5

\* STX, BS, LF, CR, ESC, "[", the parameter bytes "2", "9" and ";", the final
\* bytes H, J and K, and the letter x.
ParseBytes == {2, 8, 10, 13, 27, 91, 50, 57, 59, 72, 74, 75, 120}

\* What the guest has sent behind the marker before the run: nothing, or the
\* cursor to the last cell of the grid, ESC [ 2 5 ; 8 0 H.
ParseStarts == { << >>, << 27, 91, 50, 53, 59, 56, 48, 72 >> }

InitParse ==
    /\ img = ZeroImage(0)
    /\ prev = ZeroImage(0)
    /\ log = << >>
    /\ out = << >>
    /\ LiveOffOn(<< >>)
    /\ \E start \in ParseStarts : TextCapIs(Fed(PageLoad, TC_MARKER \o start))
    /\ serial = << >>

NextParse == \E byte \in ParseBytes : SerialByte(byte, MaxParseBytes)

SpecParse == InitParse /\ [][NextParse]_vars

(* ------------------------------------------------------------------ *)
(* What an image holds, read from its bytes                           *)
(* ------------------------------------------------------------------ *)

\* The last write of the log.
LastWrite == log[Len(log)]

\* Entry c of FAT copy k (0 is FAT #1, 1 is FAT #2).
FatEntryOf(image, geo, k, c) ==
    LET base == geo.fatStart + k * geo.sectorsPerFAT * geo.bytesPerSector
    IN IF geo.fatType = 12
       THEN LET w == U16(image, base + ((3 * c) \div 2))
            IN IF c % 2 = 1 THEN w \div 16 ELSE w % 4096
       ELSE U16(image, base + 2 * c)

\* The data clusters whose entry in FAT #1 is 0.
FreeSet(image, geo) ==
    {c \in 2 .. (geo.totalClusters + 1) : FatEntryOf(image, geo, 0, c) = 0}

\* The root-directory slots that hold an entry: first byte neither 0x00 nor 0xE5.
LiveSlots(image, geo) ==
    {i \in 0 .. (geo.rootDirEntries - 1) :
        Get(image, geo.rootDirStart + 32 * i) \notin {0, 229}}

SlotName(image, geo, i) == [k \in 1 .. 11 |-> Get(image, geo.rootDirStart + 32 * i + k - 1)]

SlotFirst(image, geo, i) == U16(image, geo.rootDirStart + 32 * i + 26)

SlotSize(image, geo, i) == U32(image, geo.rootDirStart + 32 * i + 28)

\* The live slots of an 8.3 name.
SlotsNamed(image, geo, name11) ==
    {i \in LiveSlots(image, geo) : SlotName(image, geo, i) = name11}

RECURSIVE ChainOf(_, _, _, _)
\* The clusters FAT #1 links from c, at most fuel of them.
ChainOf(image, geo, c, fuel) ==
    IF c < 2 \/ c > geo.totalClusters + 1 \/ fuel = 0 THEN << >>
    ELSE IF fuel = 1 THEN << c >>
    ELSE LET left == ChainOf(image, geo, c, fuel \div 2)
         IN IF Len(left) < fuel \div 2 THEN left
            ELSE left \o ChainOf(image, geo, FatEntryOf(image, geo, 0, left[Len(left)]),
                                 fuel - (fuel \div 2))

\* Byte k of the file stored along the chain ch.
ChainByte(image, geo, ch, k) ==
    Get(image, geo.dataStart + (ch[(k \div geo.bytesPerCluster) + 1] - 2) * geo.bytesPerCluster
               + (k % geo.bytesPerCluster))

(* ------------------------------------------------------------------ *)
(* The writers                                                        *)
(* ------------------------------------------------------------------ *)

\* C2: a write that reports failure (disk full, directory full) leaves every
\* byte of the image as it was before the call.
C2_FailedWriteLeavesImage ==
    (log # << >> /\ ~LastWrite.ok) => img = prev

\* C3: a write of more data than the free clusters hold (an empty file needs
\* one cluster too) reports failure and leaves the image byte for byte as it
\* was.
C3_DiskFullLeavesImage ==
    log # << >> =>
        LET geo == parseGeometry(prev)
            free == Cardinality(FreeSet(prev, geo))
        IN (LastWrite.data.len > free * geo.bytesPerCluster \/ free = 0)
               => (~LastWrite.ok /\ img = prev)

\* A write that met a disk with a free cluster, but too few of them.
C3_Witness ==
    /\ log # << >>
    /\ LET geo == parseGeometry(prev)
           free == Cardinality(FreeSet(prev, geo))
       IN /\ free > 0
          /\ LastWrite.data.len > free * geo.bytesPerCluster
          /\ ~LastWrite.ok
          /\ img = prev

\* The last write was accepted under a name that had a live entry.
IsOverwrite ==
    /\ log # << >>
    /\ LastWrite.ok
    /\ SlotsNamed(prev, parseGeometry(prev), Name83(LastWrite.name)) # {}

\* C6: no two live entries share an 8.3 name; and after an overwrite the name
\* has one live entry, in the slot it had, with the new size and a chain that
\* holds the new data and ends in an end-of-chain mark, and every cluster of
\* the old chain is 0 in both FAT copies.
C6_Overwrite ==
    LET geo == parseGeometry(img)
    IN /\ \A i, j \in LiveSlots(img, geo) :
              i # j => SlotName(img, geo, i) # SlotName(img, geo, j)
       /\ IsOverwrite =>
              LET name11 == Name83(LastWrite.name)
                  data == LastWrite.data
                  old == SlotsNamed(prev, geo, name11)
                  slot == CHOOSE i \in old : TRUE
                  oldChain == ChainOf(prev, geo, SlotFirst(prev, geo, slot), geo.totalClusters)
                  ch == ChainOf(img, geo, SlotFirst(img, geo, slot), geo.totalClusters)
              IN /\ SlotsNamed(img, geo, name11) = old
                 /\ Cardinality(old) = 1
                 /\ SlotSize(img, geo, slot) = data.len
                 /\ Len(ch) >= 1
                 /\ Len(ch) * geo.bytesPerCluster >= data.len
                 /\ isEOF(geo, FatEntryOf(img, geo, 0, ch[Len(ch)]))
                 /\ \A k \in 0 .. (data.len - 1) : ChainByte(img, geo, ch, k) = DataGet(data, k)
                 /\ \A i \in 1 .. Len(oldChain) :
                        /\ FatEntryOf(img, geo, 0, oldChain[i]) = 0
                        /\ FatEntryOf(img, geo, 1, oldChain[i]) = 0

\* An overwrite of a file of two clusters.
C6_Witness ==
    /\ IsOverwrite
    /\ LET geo == parseGeometry(prev)
           slot == CHOOSE i \in SlotsNamed(prev, geo, Name83(LastWrite.name)) : TRUE
       IN Len(ChainOf(prev, geo, SlotFirst(prev, geo, slot), geo.totalClusters)) >= 2

\* The slot of the file the last write was given.
WrittenSlot ==
    LET geo == parseGeometry(img)
    IN CHOOSE i \in SlotsNamed(img, geo, Name83(LastWrite.name)) : TRUE

\* The chain of the file the last write was given.
WrittenChain ==
    LET geo == parseGeometry(img)
    IN ChainOf(img, geo, SlotFirst(img, geo, WrittenSlot), geo.totalClusters)

\* C19: after a successful write the entry of the file holds the exact length
\* of the data, and its chain, from the first cluster to the end-of-chain
\* mark, has max(1, ceil(length / bytesPerCluster)) clusters.
C19_SizeAndChain ==
    (log # << >> /\ LastWrite.ok) =>
        LET geo == parseGeometry(img)
        IN /\ SlotsNamed(img, geo, Name83(LastWrite.name)) # {}
           /\ SlotSize(img, geo, WrittenSlot) = LastWrite.data.len
           /\ Len(WrittenChain) = Max(1, CeilDiv(LastWrite.data.len, geo.bytesPerCluster))
           /\ isEOF(geo, FatEntryOf(img, geo, 0, WrittenChain[Len(WrittenChain)]))

\* A successful write of data that ends inside its second cluster.
C19_Witness ==
    /\ log # << >>
    /\ LastWrite.ok
    /\ LastWrite.data.len > parseGeometry(img).bytesPerCluster
    /\ LastWrite.data.len % parseGeometry(img).bytesPerCluster # 0
    /\ Len(WrittenChain) = 2

\* C20: after a successful write every byte of the last cluster beyond the end
\* of the data is zero, also in a cluster that held the data of a file freed
\* by an overwrite.
C20_TailZero ==
    (log # << >> /\ LastWrite.ok) =>
        LET geo == parseGeometry(img)
            last == WrittenChain[Len(WrittenChain)]
            used == LastWrite.data.len - (Len(WrittenChain) - 1) * geo.bytesPerCluster
        IN \A j \in used .. (geo.bytesPerCluster - 1) :
               Get(img, geo.dataStart + (last - 2) * geo.bytesPerCluster + j) = 0

(* ------------------------------------------------------------------ *)
(* Writing into a blank image and reading it back                     *)
(* ------------------------------------------------------------------ *)

\* Every write of the log was accepted and no two of them have the same 8.3
\* name.
DistinctFilesWritten ==
    /\ \A k \in 1 .. Len(log) : log[k].ok
    /\ \A k, m \in 1 .. Len(log) : k # m => Name83(log[k].name) # Name83(log[m].name)

\* C4: files of pairwise distinct 8.3 names, empty ones included, written into
\* a blank image are extracted with the bytes and the size they were written
\* with.
C4_RoundTrip ==
    DistinctFilesWritten =>
        LET files == extractFilesFromImage(img)
        IN \A k \in 1 .. Len(log) :
               \E f \in 1 .. Len(files) :
                   /\ files[f].name = NameOnDisk(log[k].name)
                   /\ files[f].data = log[k].data

\* The bytes of FAT copy k that are not 0, by their offset in the copy.
FatBytes(image, geo, k) ==
    LET size == geo.sectorsPerFAT * geo.bytesPerSector
        base == geo.fatStart + k * size
        held == {o \in DOMAIN image.b \cap (base .. (base + size - 1)) : image.b[o] # 0}
    IN [r \in {o - base : o \in held} |-> image.b[base + r]]

\* C5: after any sequence of writes and overwrites into a blank image, FAT #1
\* and FAT #2 hold the same bytes.
C5_FatCopiesEqual ==
    LET geo == parseGeometry(img)
    IN FatBytes(img, geo, 0) = FatBytes(img, geo, 1)

(* ------------------------------------------------------------------ *)
(* Reading a disk with a malformed FAT                                *)
(* ------------------------------------------------------------------ *)

\* The chain of the entry in slot 0 never ends: following FAT #1 from its
\* first cluster passes more clusters than the volume has.
ChainIsCyclic(image) ==
    LET geo == parseGeometry(image)
    IN Len(ChainOf(image, geo, SlotFirst(image, geo, 0), geo.totalClusters + 1))
           > geo.totalClusters

\* C9: for a file whose chain runs past the iteration cap, the read is given
\* up and the caller gets no data: the extraction yields no bytes for the
\* file and the transcript read yields null.
C9_CorruptChainNoData ==
    ChainIsCyclic(img) =>
        \A k \in 1 .. Len(out) :
            IF out[k].by = "extractFilesFromImage"
            THEN \A f \in 1 .. Len(out[k].files) : out[k].files[f].data.len = 0
            ELSE ~out[k].text.ok

\* The transcript in slot 0 is open and its chain is sound: the size field is
\* 0 and the chain from its first cluster ends in an end-of-chain value.
OpenTranscript(image) ==
    LET geo == parseGeometry(image)
        ch == ChainOf(image, geo, SlotFirst(image, geo, 0), geo.totalClusters + 1)
    IN /\ SlotSize(image, geo, 0) = 0
       /\ ch # << >>
       /\ Len(ch) <= geo.totalClusters
       /\ isEOF(geo, FatEntryOf(image, geo, 0, ch[Len(ch)]))

\* C17: the read of an open transcript returns the bytes of its chain up to
\* the last byte that is not NUL, all of them and nothing else; it returns
\* null when every byte of the chain is NUL.
C17_OpenFileRead ==
    \A k \in 1 .. Len(out) :
        (out[k].by = "readTranscriptFromDisk" /\ OpenTranscript(img)) =>
            LET geo == parseGeometry(img)
                ch == ChainOf(img, geo, SlotFirst(img, geo, 0), geo.totalClusters + 1)
                total == Len(ch) * geo.bytesPerCluster
                text == out[k].text
            IN IF \A b \in 0 .. (total - 1) : ChainByte(img, geo, ch, b) = 0
               THEN ~text.ok
               ELSE /\ text.ok
                    /\ text.data.len > 0
                    /\ ChainByte(img, geo, ch, text.data.len - 1) # 0
                    /\ \A b \in text.data.len .. (total - 1) : ChainByte(img, geo, ch, b) = 0
                    /\ \A b \in 0 .. (text.data.len - 1) :
                           DataGet(text.data, b) = ChainByte(img, geo, ch, b)

\* The attribute byte of a slot.
SlotAttr(image, geo, i) == Get(image, geo.rootDirStart + 32 * i + 11)

\* The slots the extraction makes a file of: before the first slot that
\* starts with 0x00, not deleted, no long-name fragment, volume label or
\* directory, first cluster 2 or more.
FileSlots(image, geo) ==
    {i \in 0 .. (geo.rootDirEntries - 1) :
        /\ \A j \in 0 .. i : Get(image, geo.rootDirStart + 32 * j) # 0
        /\ Get(image, geo.rootDirStart + 32 * i) # 229
        /\ SlotAttr(image, geo, i) # 15
        /\ (SlotAttr(image, geo, i) \div 8) % 2 = 0
        /\ (SlotAttr(image, geo, i) \div 16) % 2 = 0
        /\ SlotFirst(image, geo, i) >= 2}

\* The length the rule gives the file of slot i: the size of the entry if it
\* is not 0 and not more than the chain covers, else what the chain covers.
RuleLength(image, geo, i) ==
    LET covered == Len(ChainOf(image, geo, SlotFirst(image, geo, i), geo.totalClusters + 2))
                   * geo.bytesPerCluster
    IN IF SlotSize(image, geo, i) # 0 /\ SlotSize(image, geo, i) <= covered
       THEN SlotSize(image, geo, i) ELSE covered

\* C18: the extraction yields one file for each live entry that is no
\* directory and has a first cluster of 2 or more, in slot order, and none for
\* the others; the file has the length of the rule and the bytes of the
\* clusters of the chain in chain order.
C18_ExtractionLength ==
    \A k \in 1 .. Len(out) :
        (out[k].by = "extractFilesFromImage" /\ ~ChainIsCyclic(img)) =>
            LET geo == parseGeometry(img)
                files == out[k].files
            IN /\ Len(files) = Cardinality(FileSlots(img, geo))
               /\ \A i \in FileSlots(img, geo) :
                      LET f == files[Cardinality({j \in FileSlots(img, geo) : j <= i})]
                          ch == ChainOf(img, geo, SlotFirst(img, geo, i), geo.totalClusters + 2)
                      IN /\ f.name = FullName(SlotName(img, geo, i))
                         /\ f.data.len = RuleLength(img, geo, i)
                         /\ \A b \in 0 .. (f.data.len - 1) :
                                DataGet(f.data, b) = ChainByte(img, geo, ch, b)

\* An extraction of a disk whose file has a size that ends inside the second
\* of three clusters, and whose other entry is a subdirectory.
C18_Witness ==
    /\ out # << >>
    /\ out[1].by = "extractFilesFromImage"
    /\ Len(out[1].files) = 1
    /\ out[1].files[1].data.len = SmallSector + 2
    /\ Len(ChainOf(img, parseGeometry(img), 2, 5)) = 3
    /\ SlotAttr(img, parseGeometry(img), 1) = 16

\* A pull is in flight: a call of pollServerChanges between its change query
\* and the replacement of the disk.
PullInFlight == Len(polls)

\* A push is in flight: a call of pushDiskToServer between its guard and its
\* finally.
PushInFlight == IF push.phase = "idle" THEN 0 ELSE 1

\* C1: at most one push or pull touches the image at a time: never a push
\* and a pull in flight together, nor two pushes, nor two pulls.
C1_OnePushOrPull == PushInFlight + PullInFlight <= 1

\* The characters of the safe charset: A-Z, a-z, 0-9, '.', '_', '-'.
SafeCodes == (65 .. 90) \cup (97 .. 122) \cup (48 .. 57) \cup {46, 95, 45}

\* C7: the server deletes or alters a host file only if the guest wrote the
\* corresponding file of the disk: a host file not yet pulled, or left out
\* of the built image, is not removed by a push.
C7_HostFilesKept ==
    \A o \in hostOps : o.op \in {"overwrite", "unlink"} => NameOnDisk(o.name) \in guestWrote

\* C8: the name of every host file that is written or deleted has only
\* characters of the safe charset.
C8_HostNamesSafe ==
    \A o \in hostOps : \A k \in 1 .. Len(o.name) : o.name[k] \in SafeCodes

\* C10: after a failed pull the host change that triggered it is still
\* reported by the next change poll.
C10_FailedPullRetried == change = "lost" => ChangesSince(lastKnownFileState, host) # {}


\* A push is started: pushDiskToServer passes its guard and sends the image.
PushStarts == push.phase = "idle" /\ push'.phase = "request"

\* C11: a push is started only when the fingerprint of the disk, computed at
\* that moment, differs from the fingerprint of the last push; with the
\* fingerprint unchanged no image is sent.
C11_PushOnlyWhenChanged ==
    [][PushStarts => diskFingerprint(img) # wsLastFingerprint]_vars


\* The server handles the request of a push.
PushHandled == push.phase = "request" /\ push'.phase = "response"

\* The same request once more changes nothing on the host and reports
\* nothing.
NothingToDo(again, files) ==
    /\ again.written = {}
    /\ again.removed = {}
    /\ again.files = files

\* What a push may do to the files before, given the extracted files: it
\* writes the files that are new or differ, reports these, keeps the others
\* as they are, and removes the files that were not extracted.
OnlyDifferences(before, after, extracted, reported) ==
    LET names == {extracted[k].name : k \in 1 .. Len(extracted)}
        differs(f) == f.name \notin DOMAIN before \/ before[f.name].data # f.data
    IN /\ DOMAIN after = names
       /\ \A k \in 1 .. Len(extracted) :
              /\ after[extracted[k].name].data = extracted[k].data
              /\ ~differs(extracted[k]) => after[extracted[k].name] = before[extracted[k].name]
              /\ [op |-> "create", name |-> extracted[k].name] \in reported
                     => extracted[k].name \notin DOMAIN before
              /\ [op |-> "overwrite", name |-> extracted[k].name] \in reported
                     => differs(extracted[k])
       /\ \A o \in reported : o.op = "unlink" => o.name \in DOMAIN before \ names

PullHandled ==
    /\ Len(polls') = Len(polls)
    /\ \E k \in 1 .. Len(polls) :
           /\ polls[k].phase = "pull"
           /\ polls'[k].phase = "pullResponse"

\* C14: when the server has handled a pull or a push, the change route has
\* nothing to report, whether the image could be built or not; and while it
\* has nothing to report, it has nothing to report after any step that is not
\* a change of the host's files from outside.
C14_NoChangeReportedAfterSync ==
    [][(\/ PullHandled
        \/ PushHandled
        \/ (ChangesSince(lastKnownFileState, host) = {} /\ host' = host))
          => ChangesSince(lastKnownFileState', host') = {}]_vars

\* A pull has been handled after the host user wrote a file: the file is on
\* the host and is no change any more.
C14_Witness ==
    /\ \E k \in 1 .. Len(polls) : polls[k].phase = "pullResponse"
    /\ clock = 1
    /\ DOMAIN host # {}
    /\ ChangesSince(lastKnownFileState, host) = {}


\* C15: once the workspace checkbox is unchecked and stopLiveSync has run, no
\* timer that was set before starts a push or a poll: the only push that
\* starts is that of the sync button, and no call of pollServerChanges is
\* added to those in flight.
C15_NoWorkAfterStop ==
    [][~workspaceToggle =>
          /\ PushStarts => ManualSync
          /\ Len(polls') <= Len(polls)]_vars

\* C16: a command starts no push by itself; at any time at most one
\* post-command timeout is pending, and it is the one of the handle; the
\* timeout that fires is the one the last command has set, a full delay
\* before, and it leaves none pending.
C16_Debounced ==
    [][/\ Cardinality(DOMAIN commandTimeouts') <= 1
       /\ DOMAIN commandTimeouts' \subseteq {wsCommandSyncTimer'}
       /\ Command =>
              /\ push' = push
              /\ wsSyncing' = wsSyncing
              /\ commandTimeouts' = (wsCommandSyncTimer' :> CommandDelay)
       /\ CommandSyncFire =>
              /\ commandTimeouts = (wsCommandSyncTimer :> 0)
              /\ commandTimeouts' = << >>]_vars

\* The first push is over and the timeout of a command is the one pending,
\* with the full delay; no push is in progress.
C16_Witness ==
    /\ wsCommandSyncTimer # 0
    /\ commandTimeouts = (wsCommandSyncTimer :> CommandDelay)
    /\ push.phase = "idle"
    /\ ~wsSyncing
    /\ ~initialPush


(* ------------------------------------------------------------------ *)
(* Geometry                                                           *)
(* ------------------------------------------------------------------ *)

\* The boot sector the parsers look at lies at this offset of the buffer.
BootAt(image) ==
    IF image.len > 512 /\ Get(image, 510) = 85 /\ Get(image, 511) = 170
       /\ Get(image, 446 + 4) \in FatPartTypes /\ U32(image, 446 + 8) > 0
    THEN 512 * U32(image, 446 + 8) ELSE 0

\* One of the listed cases: bytes per sector outside 128 .. 4096, a count
\* that is 0, or a boot sector past the end of the buffer.
GeoInvalid(image) ==
    \/ BootAt(image) >= image.len
    \/ U16(image, BootAt(image) + 11) < 128
    \/ U16(image, BootAt(image) + 11) > 4096
    \/ Get(image, BootAt(image) + 13) = 0
    \/ Get(image, BootAt(image) + 16) = 0
    \/ U16(image, BootAt(image) + 22) = 0

\* C21: a parser returns for every buffer of 512 bytes or more, and what it
\* returns is null in each of the invalid cases.
C21_ParseNeverRaises ==
    \A k \in 1 .. Len(out) :
        out[k].by \in {"parseGeometry", "parseFATGeometry"} =>
            /\ out[k].geo # Raised
            /\ GeoInvalid(img) => out[k].geo = NoGeo


\* C22: in every geometry a parser returns, the data start is the root
\* directory start plus the sectors of the root directory, and the partition
\* start, the starts of the two FATs, of the root directory and of the data
\* are multiples of the bytes per sector.
C22_OffsetsAligned ==
    \A k \in 1 .. Len(out) :
        (out[k].by \in {"parseGeometry", "parseFATGeometry"} /\ out[k].geo.ok) =>
            LET geo == out[k].geo
            IN /\ geo.dataStart = geo.rootDirStart
                      + CeilDiv(geo.rootDirEntries * 32, geo.bytesPerSector) * geo.bytesPerSector
               /\ \A o \in {geo.partOffset, geo.fatStart, geo.fat2Start, geo.rootDirStart,
                            geo.dataStart} : o % geo.bytesPerSector = 0


\* The cluster count of a partition of P sectors with FATs of spf sectors and
\* clusters of spc sectors.
ClustersOf(P, spc, spf) ==
    (P - RESERVED_SECTORS - NUM_FATS * spf - ROOT_DIR_SECTORS) \div spc

\* With clusters of spc sectors a partition of P sectors can be laid out as
\* FAT16: there is a FAT size that is the one its cluster count needs, with
\* the cluster count in 4085 .. 65524.  (Such a FAT has 16 to 256 sectors.)
FitsFat16(P, spc) ==
    \E spf \in 16 .. 256 :
        /\ ClustersOf(P, spc, spf) >= 4085
        /\ ClustersOf(P, spc, spf) <= 65524
        /\ spf = CeilDiv((ClustersOf(P, spc, spf) + 2) * 2, BYTES_PER_SECTOR)

\* C23: the blank image of every size from 4 to 512 MiB has the least
\* sectors per cluster of 1, 2, 4, ..., 64 with which the cluster count lies
\* in 4085 .. 65524, and parsing it gives a FAT16 geometry with 2 FATs, 512
\* root entries and these sectors per cluster, sectors per FAT and clusters.
C23_BlankGeometry ==
    (out # << >> /\ out[1].by = "disk.img") =>
        LET P == PartitionSectors(out[1].sizeMB)
            geo == parseGeometry(img)
        IN /\ out[1].status = 200
           /\ geo.ok
           /\ geo.fatType = 16
           /\ geo.numFATs = 2
           /\ geo.rootDirEntries = 512
           /\ geo.sectorsPerCluster \in {1, 2, 4, 8, 16, 32, 64}
           /\ geo.totalClusters = ClustersOf(P, geo.sectorsPerCluster, geo.sectorsPerFAT)
           /\ geo.totalClusters >= 4085
           /\ geo.totalClusters <= 65524
           /\ geo.sectorsPerFAT = CeilDiv((geo.totalClusters + 2) * 2, BYTES_PER_SECTOR)
           /\ \A spc \in {1, 2, 4, 8, 16, 32} :
                  spc < geo.sectorsPerCluster => ~FitsFat16(P, spc)

\* The image of 512 MiB is there, with clusters of more than one sector.
C23_Witness ==
    /\ out # << >>
    /\ out[1].by = "disk.img"
    /\ out[1].sizeMB = MaxSizeMB
    /\ parseGeometry(img).sectorsPerCluster > 1


\* The slots of the root directory of image that are live: before the first
\* slot that begins with 0x00, not deleted, no long-name fragment, no volume
\* label.
LiveEntries(image) ==
    LET geo == parseGeometry(image)
        first(s) == Get(image, geo.rootDirStart + 32 * s)
        attr(s) == Get(image, geo.rootDirStart + 32 * s + 11)
    IN {s \in 0 .. (geo.rootDirEntries - 1) :
            /\ \A j \in 0 .. s : first(j) # 0
            /\ first(s) # 229
            /\ attr(s) # 15
            /\ (attr(s) \div 8) % 2 = 0}

\* str is the n bytes at off without the blanks at their end.
IsTrimmed(image, off, n, str) ==
    /\ Len(str) <= n
    /\ \A i \in 1 .. n : Get(image, off + i - 1) = IF i <= Len(str) THEN str[i] ELSE 32
    /\ Len(str) > 0 => str[Len(str)] # 32

PrintRegion(disk) ==
    LET geo == parseFATGeometry(disk)
    IN (geo.fatStart .. (geo.fatStart + geo.sectorsPerFAT * geo.bytesPerSector - 1))
       \cup (geo.rootDirStart .. (geo.rootDirStart + geo.rootDirEntries * 32 - 1))

\* The offsets at which two disks of the same length differ.
DiffersAt(a, b) == {o \in DOMAIN a.b \cup DOMAIN b.b : Get(a, o) # Get(b, o)}

\* The fingerprints taken, two by two.
PrintPairs ==
    {p \in (1 .. Len(out)) \X (1 .. Len(out)) :
        /\ out[p[1]].by = "diskFingerprint"
        /\ out[p[2]].by = "diskFingerprint"
        /\ parseFATGeometry(out[p[1]].disk).ok
        /\ parseFATGeometry(out[p[1]].disk) = parseFATGeometry(out[p[2]].disk)}

\* C25: two disks with the same geometry that agree on FAT #1 and on the
\* root directory have the same fingerprint, whatever FAT #2 and the data
\* area hold; so has a disk fingerprinted twice.
C25_FingerprintOfMetadataOnly ==
    \A p \in PrintPairs :
        DiffersAt(out[p[1]].disk, out[p[2]].disk) \cap PrintRegion(out[p[1]].disk) = {}
            => out[p[1]].fp = out[p[2]].fp

\* Two fingerprints of disks that differ in FAT #2 or in the data area only.
C25_Witness ==
    \E p \in PrintPairs :
        /\ DiffersAt(out[p[1]].disk, out[p[2]].disk) # {}
        /\ DiffersAt(out[p[1]].disk, out[p[2]].disk) \cap PrintRegion(out[p[1]].disk) = {}
        /\ out[p[1]].fp = out[p[2]].fp
        /\ out[p[1]].fp.ok

\* C26: two disks with the same geometry that differ in a single byte, of
\* FAT #1 or of the root-directory entries, have different fingerprints.
C26_MetadataByteChangesFingerprint ==
    \A p \in PrintPairs :
        (/\ Cardinality(DiffersAt(out[p[1]].disk, out[p[2]].disk)) = 1
         /\ DiffersAt(out[p[1]].disk, out[p[2]].disk) \subseteq PrintRegion(out[p[1]].disk))
            => /\ out[p[1]].fp.ok
               /\ out[p[2]].fp.ok
               /\ out[p[1]].fp.h # out[p[2]].fp.h

\* Two fingerprints of disks that differ in one byte of the root directory.
C26_Witness ==
    \E p \in PrintPairs :
        /\ DiffersAt(out[p[1]].disk, out[p[2]].disk)
               = {parseFATGeometry(out[p[1]].disk).rootDirStart}
        /\ out[p[1]].fp.ok
        /\ out[p[2]].fp.ok
        /\ out[p[1]].fp.h # out[p[2]].fp.h


\* The server handles the change query of a poll.
ChangesHandled ==
    /\ Len(polls') = Len(polls)
    /\ \E k \in 1 .. Len(polls) :
           /\ polls[k].phase = "changes"
           /\ polls'[k].phase = "changesResponse"

\* The names with their kind of change: on the host and not in the snapshot,
\* in both with another size or modification time, in the snapshot and not
\* on the host.
ChangedNames(known, files) ==
    {c \in (DOMAIN files \cup DOMAIN known) \X {"added", "modified", "deleted"} :
        \/ c[2] = "added" /\ c[1] \in DOMAIN files /\ c[1] \notin DOMAIN known
        \/ c[2] = "deleted" /\ c[1] \in DOMAIN known /\ c[1] \notin DOMAIN files
        \/ /\ c[2] = "modified"
           /\ c[1] \in DOMAIN files
           /\ c[1] \in DOMAIN known
           /\ \/ known[c[1]].size # files[c[1]].data.len
              \/ known[c[1]].mtimeMs # files[c[1]].mtime}

\* C27: a change poll reports exactly the names added, modified (another
\* size or modification time) or deleted since the snapshot, and changes
\* neither the snapshot, the host's files nor the emulator's disk; what there
\* is to report changes only when a pull or a push is handled or the host's
\* files change.
C27_ChangePollReadOnly ==
    [][/\ ChangesHandled =>
              /\ \A k \in 1 .. Len(polls) :
                     polls'[k] # polls[k] =>
                         /\ {<< c.name, c.type >> : c \in polls'[k].changes}
                                = ChangedNames(lastKnownFileState, host)
                         /\ polls'[k].hasChanges
                                = (ChangedNames(lastKnownFileState, host) # {})
              /\ lastKnownFileState' = lastKnownFileState
              /\ host' = host
              /\ img' = img
       /\ (~PullHandled /\ ~PushHandled /\ host' = host) =>
              ChangedNames(lastKnownFileState', host') = ChangedNames(lastKnownFileState, host)
      ]_vars

\* A change poll has reported a file the host user wrote, and the file is
\* still there to report.
C27_Witness ==
    /\ \E k \in 1 .. Len(polls) :
           /\ polls[k].phase = "changesResponse"
           /\ polls[k].hasChanges
           /\ \E c \in polls[k].changes : c.type = "added"
    /\ ChangedNames(lastKnownFileState, host) # {}


\* The host's files a pull can put on the disk (at most 16 MiB), under their
\* names on the disk.
HostMirror ==
    {<< NameOnDisk(n), host[n].data >> : n \in {m \in DOMAIN host : host[m].data.len <= SKIP_ABOVE}}

\* The files extracted from the emulator's disk.
DiskMirror ==
    LET files == extractFilesFromImage(img)
    IN {<< files[k].name, files[k].data >> : k \in 1 .. Len(files)}

\* C28: left to itself (no request fails, the users make their last changes
\* at some time), live sync reaches and stays in a state where the host's
\* files, names and bytes, are the files extracted from the emulator's disk.
C28_MirrorConverges == <>[](HostMirror = DiskMirror)


\* The image of the build before the i-th file of the listing is handled.
BuildBefore(files, entries, sizeMB, i) ==
    LET blank == createBlankImage(sizeMB, VolumeSerial).img
    IN IF i = 1 THEN blank
       ELSE BuildRun(files, entries, parseGeometry(blank),
                     [i |-> 0, img |-> blank, done |-> FALSE], i - 1).img

\* The image holds the file: one live entry of its 8.3 name, with its size
\* and a chain of the clusters it needs whose bytes are the data.
HoldsFile(image, geo, name, data) ==
    \E s \in SlotsNamed(image, geo, Name83(name)) :
        LET ch == ChainOf(image, geo, SlotFirst(image, geo, s), ClustersNeeded(geo, data))
        IN /\ SlotsNamed(image, geo, Name83(name)) = {s}
           /\ SlotSize(image, geo, s) = data.len
           /\ Len(ch) = ClustersNeeded(geo, data)
           /\ isEOF(geo, FatEntryOf(image, geo, 0, ch[Len(ch)]))
           /\ \A k \in 0 .. (data.len - 1) : ChainByte(image, geo, ch, k) = DataGet(data, k)

C30_FingerprintOfSentImage ==
    [][(PushDone /\ push.ok) => wsLastFingerprint' = diskFingerprint(push.image)]_vars


(* ------------------------------------------------------------------ *)
(* The writers and the files they are not given                       *)
(* ------------------------------------------------------------------ *)

\* The 32 bytes of the directory entry in slot i.
SlotBytes(image, geo, i) == [k \in 0 .. 31 |-> Get(image, geo.rootDirStart + 32 * i + k)]

\* The bytes of cluster c.
ClusterBytes(image, geo, c) ==
    LET base == geo.dataStart + (c - 2) * geo.bytesPerCluster
        held == {o \in DOMAIN image.b \cap (base .. (base + geo.bytesPerCluster - 1)) :
                     image.b[o] # 0}
    IN [r \in {o - base : o \in held} |-> image.b[base + r]]

\* The file of slot i is in image after what it is in image before: the same
\* entry, the same chain in FAT #1 with the same value after its last
\* cluster, the same bytes in its clusters.
SameFile(before, after, geo, i) ==
    LET ch == ChainOf(before, geo, SlotFirst(before, geo, i), geo.totalClusters)
    IN /\ SlotBytes(after, geo, i) = SlotBytes(before, geo, i)
       /\ \A k \in 1 .. Len(ch) :
              /\ FatEntryOf(after, geo, 0, ch[k]) = FatEntryOf(before, geo, 0, ch[k])
              /\ ClusterBytes(after, geo, ch[k]) = ClusterBytes(before, geo, ch[k])

\* The live slots of the image before the last write that hold another 8.3
\* name than the one written.
OtherSlots ==
    LET geo == parseGeometry(prev)
    IN {i \in LiveSlots(prev, geo) : SlotName(prev, geo, i) # Name83(LastWrite.name)}

\* C31: a write, accepted or not, new or over an existing file, leaves every
\* file of another 8.3 name as it was: its directory entry, its chain in
\* FAT #1 and the bytes of its clusters.
C31_OtherFilesKept ==
    log # << >> => \A i \in OtherSlots : SameFile(prev, img, parseGeometry(prev), i)

(* ------------------------------------------------------------------ *)
(* The chains of FAT #1                                               *)
(* ------------------------------------------------------------------ *)

\* The data clusters whose entry in FAT #1 is not 0, found from the bytes of
\* the FAT that are not 0.
UsedSet(image, geo) ==
    LET held == DOMAIN FatBytes(image, geo, 0)
        near == IF geo.fatType = 12
                THEN UNION {((2 * (r - 1)) \div 3) .. (((2 * r) \div 3) + 1) : r \in held}
                ELSE {r \div 2 : r \in held}
    IN {c \in near : /\ c >= 2
                     /\ c <= geo.totalClusters + 1
                     /\ FatEntryOf(image, geo, 0, c) # 0}

\* The chain of the entry in slot i, followed for one link more than the
\* volume has clusters.
SlotChain(image, geo, i) ==
    ChainOf(image, geo, SlotFirst(image, geo, i), geo.totalClusters + 1)

\* The chain of slot i starts at a data cluster, passes no cluster twice and
\* ends at a cluster whose entry is an end-of-chain marker.
ChainEnds(image, geo, i) ==
    LET ch == SlotChain(image, geo, i)
    IN /\ Len(ch) >= 1
       /\ Len(ch) <= geo.totalClusters
       /\ \A k, m \in 1 .. Len(ch) : k # m => ch[k] # ch[m]
       /\ \A k \in 1 .. Len(ch) : ch[k] >= 2 /\ ch[k] <= geo.totalClusters + 1
       /\ isEOF(geo, FatEntryOf(image, geo, 0, ch[Len(ch)]))

\* The clusters on the chain of slot i.
ChainSet(image, geo, i) ==
    LET ch == SlotChain(image, geo, i) IN {ch[k] : k \in 1 .. Len(ch)}

\* The clusters with an entry in FAT #1 that are on the chain of no live slot.
Leaked(image, geo) ==
    UsedSet(image, geo) \ UNION {ChainSet(image, geo, i) : i \in LiveSlots(image, geo)}

\* C32: after any writes into a blank volume the chain of every live entry
\* is acyclic, stays among the data clusters and ends in an end-of-chain
\* marker, no cluster is on the chains of two entries, and every cluster on
\* no chain has the entry 0 in FAT #1.
C32_ChainsWellFormed ==
    LET geo == parseGeometry(img)
        live == LiveSlots(img, geo)
    IN /\ \A i \in live : ChainEnds(img, geo, i)
       /\ \A i, j \in live : i # j => ChainSet(img, geo, i) \cap ChainSet(img, geo, j) = {}
       /\ Leaked(img, geo) = {}

(* ------------------------------------------------------------------ *)
(* The writer of the browser and the writer of the server             *)
(* ------------------------------------------------------------------ *)

\* C33: on the image a write of the server met, the two geometry parsers
\* return equal geometries, and the browser's writer, given the same name and
\* data, returns what the server's writer returned and leaves the bytes the
\* server's writer left, for a new file and for an overwrite alike.
C33_WritersAgree ==
    (log # << >> /\ LastWrite.by = "server") =>
        LET browser == writeFATFile(prev, parseFATGeometry(prev), LastWrite.name, LastWrite.data)
        IN /\ parseFATGeometry(prev) = parseGeometry(prev)
           /\ browser.ok = LastWrite.ok
           /\ Normal(browser.img) = Normal(img)

(* ------------------------------------------------------------------ *)
(* The walks along a cluster chain                                    *)
(* ------------------------------------------------------------------ *)

\* C34: whatever the FAT links (a ring, a cluster linked to itself, a link
\* out of the volume), the walk of readFATFile, of readFATFileByChain, of the
\* extraction and of the release of an old chain has ended within its bound
\* of passes.
C34_WalksEnd == \A k \in 1 .. Len(out) : out[k].done

\* The release of a chain that is a ring has ended.
C34_Witness ==
    /\ out # << >>
    /\ out[1].by = "writeFileToImage"
    /\ out[1].done
    /\ ChainIsCyclic(prev)

(* ------------------------------------------------------------------ *)
(* The guard of the push                                              *)
(* ------------------------------------------------------------------ *)

\* C35: whenever the guard flag of the push is set it is cleared again later,
\* on every path of the push: the response handled, the request failed or
\* answered with an error, no disk to send.
C35_GuardReleased == wsSyncing ~> ~wsSyncing

\* A push that found no disk and a push that was sent are over, and the guard
\* is clear.
C35_Witness ==
    /\ log # << >>
    /\ ~initialPush
    /\ push.phase = "idle"
    /\ ~wsSyncing

(* ------------------------------------------------------------------ *)
(* The clusters a write takes                                         *)
(* ------------------------------------------------------------------ *)

\* The n least elements of a set of numbers.
Lowest(S, n) == {c \in S : Cardinality({d \in S : d < c}) < n}

\* C36: the chain of a file just written is made of the N lowest clusters that
\* were free in FAT #1 when the writer was called, N the clusters needed, in
\* rising order: the entry points at the lowest of them, each links to the
\* next higher one, and the last holds the end-of-chain marker of the FAT
\* width, 0xFFF or 0xFFFF.
C36_AllocationOrder ==
    (log # << >> /\ LastWrite.ok) =>
        LET geo == parseGeometry(prev)
            n == ClustersNeeded(geo, LastWrite.data)
            lowest == Lowest(FreeSet(prev, geo), n)
            ch == WrittenChain
        IN /\ Len(ch) = n
           /\ {ch[k] : k \in 1 .. Len(ch)} = lowest
           /\ \A k \in 1 .. (Len(ch) - 1) : ch[k] < ch[k + 1]
           /\ SlotFirst(img, geo, WrittenSlot) = Least(lowest)
           /\ \A k \in 1 .. (Len(ch) - 1) : FatEntryOf(img, geo, 0, ch[k]) = ch[k + 1]
           /\ FatEntryOf(img, geo, 0, ch[Len(ch)]) = EofMark(geo)

\* A write that took two free clusters with a cluster in use between them.
C36_Witness ==
    /\ log # << >>
    /\ LastWrite.ok
    /\ Len(WrittenChain) = 2
    /\ WrittenChain[2] > WrittenChain[1] + 1

(* ------------------------------------------------------------------ *)
(* The FAT and the data area of a blank image                         *)
(* ------------------------------------------------------------------ *)

\* C37: in the blank image of every size from 4 to 512 MiB a FAT copy has at
\* least 2 * (totalClusters + 2) bytes, so that for every cluster the
\* allocator can take, 2 .. totalClusters + 1, both bytes of its entry lie
\* inside FAT #1 and inside FAT #2, each in its own copy, and all bytes of
\* the cluster lie inside the image.
C37_FatCoversVolume ==
    (out # << >> /\ out[1].by = "disk.img") =>
        LET geo == parseGeometry(img)
            fatBytes == geo.sectorsPerFAT * geo.bytesPerSector
        IN /\ geo.ok
           /\ geo.sectorsPerFAT * BYTES_PER_SECTOR >= 2 * (geo.totalClusters + 2)
           /\ geo.fat2Start = geo.fatStart + fatBytes
           /\ geo.fat2Start + fatBytes <= geo.rootDirStart
           /\ \A c \in 2 .. (geo.totalClusters + 1) :
                  /\ 2 * c + 1 < fatBytes
                  /\ geo.dataStart + (c - 2) * geo.bytesPerCluster >= geo.dataStart
                  /\ geo.dataStart + (c - 1) * geo.bytesPerCluster <= img.len

\* The smallest image is there, and the entry of its last cluster lies in the
\* last sector of the FAT.
C37_Witness ==
    /\ out # << >>
    /\ out[1].by = "disk.img"
    /\ out[1].sizeMB = MinSizeMB
    /\ LET geo == parseGeometry(img)
       IN 2 * (geo.totalClusters + 1) >= (geo.sectorsPerFAT - 1) * geo.bytesPerSector

(* ------------------------------------------------------------------ *)
(* TextCap                                                            *)
(* ------------------------------------------------------------------ *)

\* C38: when the last five bytes the guest has sent are the marker
\* ESC [ T C ], the detector has returned true and TextCap is active,
\* whatever was sent before them, an ESC or the start of a marker included.
C38_MarkerDetected ==
    (Len(serial) >= Len(TC_MARKER)
     /\ SubSeq(serial, Len(serial) - Len(TC_MARKER) + 1, Len(serial)) = TC_MARKER)
        => textCapActive

\* The cursor is on the grid, the buffer has ROWS rows of COLS cells, the
\* parser is in one of its three states.
OnGrid ==
    /\ textCapCurRow >= 0
    /\ textCapCurRow < ROWS
    /\ textCapCurCol >= 0
    /\ textCapCurCol < COLS
    /\ Len(textCapBuffer) = ROWS
    /\ \A r \in 1 .. Len(textCapBuffer) :
           /\ textCapBuffer[r].len = COLS
           /\ DOMAIN textCapBuffer[r].b \subseteq 0 .. (COLS - 1)
    /\ textCapParseState \in {TC_NORMAL, TC_ESC, TC_CSI}

\* The byte of this step, given to the parser, ends an escape sequence: a byte
\* other than "[" behind ESC, or a byte outside 0x20 .. 0x3F behind ESC [.
EndsSequence ==
    /\ serial' # serial
    /\ LET byte == serial'[Len(serial')]
       IN /\ byte \notin {2, 3}
          /\ \/ textCapParseState = TC_ESC /\ byte # 91
             \/ textCapParseState = TC_CSI /\ (byte < 32 \/ byte > 63)

\* C39: whatever bytes the parser is given after initTextCapBuffer, the
\* cursor stays on the grid, the buffer keeps ROWS rows of COLS cells, the
\* parser is in the state normal, ESC or CSI, and it is in the state normal
\* after the byte that ends an escape sequence.
C39_ParserOnGrid ==
    /\ [](textCapActive => OnGrid)
    /\ [][EndsSequence => textCapParseState' = TC_NORMAL]_vars

\* The parser has put a character into the last cell of the grid, scrolled,
\* and is back in the state normal behind an escape sequence.
C39_Witness ==
    /\ textCapActive
    /\ textCapCurRow = ROWS - 1
    /\ textCapCurCol = 0
    /\ textCapBuffer[ROWS - 1].b # << >>
    /\ Len(serial) >= 4
    /\ serial[Len(serial) - 2] = 27
    /\ serial[Len(serial) - 1] = 91
    /\ textCapParseState = TC_NORMAL

=============================================================================
